---------------------------- MODULE Spec2Model ----------------------------
(***************************************************************************)
(* A model of DeepFlags (src/DeepFlags.hpp): the argument tokenizer        *)
(* (ArgReader), the value parsers (ParseType<T>), the flag nodes           *)
(* (SingletonFlag, Switch, VectorFlag, Flag<G>, FlagGroup) and the         *)
(* recursive dispatch FlagBase::parseArgs / parseArgsR.                    *)
(*                                                                         *)
(* A C string is a sequence of one-character strings.  The recursion of    *)
(* parseArgsR is an explicit call stack: each frame holds the object the   *)
(* call runs on, and a return hands the object back to the caller, which   *)
(* stores it where the C++ pointer pointed.                                *)
(***************************************************************************)
EXTENDS Integers, Sequences, FiniteSets, TLC

(***************************************************************************)
(* Bounds of the model.                                                    *)
(***************************************************************************)
\* the most phrases (see the vocabularies below) one command line is made of
MaxPhrases == 4

(***************************************************************************)
(* Characters and strings.                                                 *)
(***************************************************************************)
\* the terminating '\0', also "no short name" (char 0)
NUL == "NUL"

Dash == "-"

Lower(c) ==
  CASE c = "A" -> "a" [] c = "B" -> "b" [] c = "C" -> "c" [] c = "D" -> "d"
    [] c = "E" -> "e" [] c = "F" -> "f" [] c = "G" -> "g" [] c = "H" -> "h"
    [] c = "I" -> "i" [] c = "J" -> "j" [] c = "K" -> "k" [] c = "L" -> "l"
    [] c = "M" -> "m" [] c = "N" -> "n" [] c = "O" -> "o" [] c = "P" -> "p"
    [] c = "Q" -> "q" [] c = "R" -> "r" [] c = "S" -> "s" [] c = "T" -> "t"
    [] c = "U" -> "u" [] c = "V" -> "v" [] c = "W" -> "w" [] c = "X" -> "x"
    [] c = "Y" -> "y" [] c = "Z" -> "z" [] OTHER -> c

\* lower leaving the string as it is
lowerNot(x) == x

\* Internal::lower
lower(x) == [i \in 1..Len(x) |-> Lower(x[i])]

(***************************************************************************)
(* Value parsers.  Each yields [error, value].                             *)
(***************************************************************************)
boolNames ==
  [s \in { <<"1">>, <<"o","n">>, <<"y","e","s">>, <<"t","r","u","e">>,
           <<"0">>, <<"n","o">>, <<"o","f","f">>, <<"f","a","l","s","e">> }
     |-> s \in { <<"1">>, <<"o","n">>, <<"y","e","s">>, <<"t","r","u","e">> }]

ParseBool(val) ==
  IF lower(val) \in DOMAIN boolNames
    THEN [error |-> FALSE, value |-> boolNames[lower(val)]]
    ELSE [error |-> TRUE, value |-> FALSE]

ParseString(val) == [error |-> FALSE, value |-> val]

IsSpace(c) == c \in {" ", "\t", "\n", "\r"}

\* the value of a digit character, 99 for any other character
DigitVal(c) ==
  CASE c = "0" -> 0 [] c = "1" -> 1 [] c = "2" -> 2 [] c = "3" -> 3
    [] c = "4" -> 4 [] c = "5" -> 5 [] c = "6" -> 6 [] c = "7" -> 7
    [] c = "8" -> 8 [] c = "9" -> 9
    [] c \in {"a", "A"} -> 10 [] c \in {"b", "B"} -> 11
    [] c \in {"c", "C"} -> 12 [] c \in {"d", "D"} -> 13
    [] c \in {"e", "E"} -> 14 [] c \in {"f", "F"} -> 15
    [] OTHER -> 99

RECURSIVE SkipSpace(_)
SkipSpace(s) ==
  IF s # << >> /\ IsSpace(s[1]) THEN SkipSpace(Tail(s)) ELSE s

\* the longest run of digits of the base at the head of s: its value and length
RECURSIVE Digits(_, _, _, _)
Digits(s, base, acc, n) ==
  IF s # << >> /\ DigitVal(s[1]) < base
    THEN Digits(Tail(s), base, acc * base + DigitVal(s[1]), n + 1)
    ELSE [val |-> acc, n |-> n]

\* std::stoll(val, nullptr, 0): white space, a sign, the base from the prefix,
\* the longest run of digits; what follows the digits is ignored.  It throws
\* with no digit.  (It also throws past 63 bits, which no string of the
\* vocabularies below reaches.)
Stoll(val) ==
  LET t    == SkipSpace(val)
      neg  == t # << >> /\ t[1] = "-"
      u    == IF t # << >> /\ t[1] \in {"+", "-"} THEN Tail(t) ELSE t
      hex  == Len(u) >= 3 /\ u[1] = "0" /\ u[2] \in {"x", "X"}
                /\ DigitVal(u[3]) < 16
      base == IF hex THEN 16 ELSE IF u # << >> /\ u[1] = "0" THEN 8 ELSE 10
      body == IF hex THEN SubSeq(u, 3, Len(u)) ELSE u
      r    == Digits(body, base, 0, 0)
  IN  IF r.n = 0 THEN [throws |-> TRUE, val |-> 0]
      ELSE [throws |-> FALSE, val |-> IF neg THEN 0 - r.val ELSE r.val]

Int8Min == -128
Int8Max == 127
Int16Min == -32768
Int16Max == 32767
Int32Max == 2147483647

\* std::numeric_limits<T>::min() and max() of the integer types; the 64 bit
\* type has the range of the long long that stoll returns
InRange(ptype, i) ==
  CASE ptype = "int8"  -> i >= Int8Min /\ i <= Int8Max
    [] ptype = "int16" -> i >= Int16Min /\ i <= Int16Max
    [] ptype = "int32" -> i >= (0 - Int32Max) - 1 /\ i <= Int32Max
    [] OTHER -> TRUE

ParseIntType(ptype, val) ==
  LET r == Stoll(val)
  IN  IF ~r.throws /\ InRange(ptype, r.val)
        THEN [error |-> FALSE, value |-> r.val]
        ELSE [error |-> TRUE, value |-> 0]


(***************************************************************************)
(* Floating-point values.  A value is a sign, a decimal mantissa and a     *)
(* decimal exponent: neg, mant, exp stand for (-1)^neg * mant * 10^exp,    *)
(* the mantissa without trailing zeros.  The stored T is the T nearest to  *)
(* that number; decimals of at most six significant digits have distinct   *)
(* nearest floats (FLT_DIG), so the decimal names the stored value while   *)
(* the mantissas of the inputs stay that short.                            *)
(***************************************************************************)
RECURSIVE Pow10(_)
Pow10(n) == IF n = 0 THEN 1 ELSE 10 * Pow10(n - 1)

RECURSIVE NumDigits(_)
NumDigits(m) == IF m < 10 THEN 1 ELSE 1 + NumDigits(m \div 10)

RECURSIVE Real(_, _, _)
Real(neg, mant, exp) ==
  IF mant = 0 THEN [neg |-> neg, mant |-> 0, exp |-> 0]
  ELSE IF mant % 10 = 0 THEN Real(neg, mant \div 10, exp + 1)
  ELSE [neg |-> neg, mant |-> mant, exp |-> exp]

\* the position of the leading digit, and the mantissa brought to nine digits
Order(d) == NumDigits(d.mant) + d.exp
Scaled(d) == d.mant * Pow10(9 - NumDigits(d.mant))

\* |a| <= |b|
MagLeq(a, b) ==
  IF a.mant = 0 THEN TRUE
  ELSE IF b.mant = 0 THEN FALSE
  ELSE \/ Order(a) < Order(b)
       \/ Order(a) = Order(b) /\ Scaled(a) <= Scaled(b)

\* a <= b of the floating-point comparison; -0 and 0 compare equal
Leq(a, b) ==
  CASE a.neg /\ ~b.neg -> TRUE
    [] ~a.neg /\ b.neg -> a.mant = 0 /\ b.mant = 0
    [] a.neg /\ b.neg  -> MagLeq(b, a)
    [] OTHER           -> MagLeq(a, b)

\* std::numeric_limits<T>::min() and max() of the floating-point types, cut
\* to nine digits: min() is the smallest positive normal value.  long double
\* is the 80 bit type of x86.
FloatMin(ptype) ==
  CASE ptype = "float"  -> [neg |-> FALSE, mant |-> 117549435, exp |-> -46]
    [] ptype = "double" -> [neg |-> FALSE, mant |-> 222507385, exp |-> -316]
    [] OTHER            -> [neg |-> FALSE, mant |-> 336210314, exp |-> -4940]

FloatMax(ptype) ==
  CASE ptype = "float"  -> [neg |-> FALSE, mant |-> 340282346, exp |-> 30]
    [] ptype = "double" -> [neg |-> FALSE, mant |-> 179769313, exp |-> 300]
    [] OTHER            -> [neg |-> FALSE, mant |-> 118973149, exp |-> 4924]

\* std::stold(val, nullptr): white space, a sign, digits with an optional
\* point, an optional exponent that is taken only when a digit follows it;
\* what follows the number is ignored.  It throws with no digit, and when
\* strtold reports ERANGE: above the largest long double, and below the
\* smallest normal one.  (It also reads hexadecimal numbers, inf and nan,
\* which no string of the vocabularies below spells.)  The scan goes through
\* the string once; each step hands on what it has read and the rest.
StoldSign(t) ==
  [neg  |-> t # << >> /\ t[1] = "-",
   rest |-> IF t # << >> /\ t[1] \in {"+", "-"} THEN Tail(t) ELSE t]

\* the digits r at the head of s, and what follows them
Taken(s, r) == [val |-> r.val, n |-> r.n, rest |-> SubSeq(s, r.n + 1, Len(s))]

TakeDigits(s) == Taken(s, Digits(s, 10, 0, 0))

IntegralOf(p, r) ==
  [neg |-> p.neg, mant |-> r.val, n |-> r.n, scale |-> 0, rest |-> r.rest]

StoldIntegral(p) == IntegralOf(p, TakeDigits(p.rest))

FractionOf(p, r) ==
  [neg |-> p.neg, mant |-> p.mant * Pow10(r.n) + r.val, n |-> p.n + r.n,
   scale |-> r.n, rest |-> r.rest]

StoldFraction(p) ==
  IF p.rest # << >> /\ p.rest[1] = "."
    THEN FractionOf(p, TakeDigits(Tail(p.rest)))
    ELSE p

\* the place of the first digit of an exponent: after e, or after e and a sign
ExponentAt(w) == IF Len(w) >= 3 /\ w[2] \in {"+", "-"} THEN 3 ELSE 2

StoldExponent(w) ==
  IF Len(w) >= 2 /\ w[1] \in {"e", "E"} /\ DigitVal(w[ExponentAt(w)]) < 10
    THEN (IF w[2] = "-" THEN -1 ELSE 1)
           * Digits(SubSeq(w, ExponentAt(w), Len(w)), 10, 0, 0).val
    ELSE 0

StoldRange(d) ==
  IF d.mant # 0 /\ ~(MagLeq(FloatMin("long double"), d)
                       /\ MagLeq(d, FloatMax("long double")))
    THEN [throws |-> TRUE, val |-> Real(FALSE, 0, 0)]
    ELSE [throws |-> FALSE, val |-> d]

StoldValue(p) ==
  IF p.n = 0 THEN [throws |-> TRUE, val |-> Real(FALSE, 0, 0)]
  ELSE StoldRange(Real(p.neg, p.mant, StoldExponent(p.rest) - p.scale))

Stold(val) ==
  StoldValue(StoldFraction(StoldIntegral(StoldSign(SkipSpace(val)))))

\* the range check of ParseFloatType on what stold gave
FloatChecked(ptype, r) ==
  IF ~r.throws /\ Leq(FloatMin(ptype), r.val) /\ Leq(r.val, FloatMax(ptype))
    THEN [error |-> FALSE, value |-> r.val]
    ELSE [error |-> TRUE, value |-> Real(FALSE, 0, 0)]

ParseFloatType(ptype, val) == FloatChecked(ptype, Stold(val))

FloatTypes == {"float", "double", "long double"}

ParseType(ptype, val) ==
  CASE ptype = "bool"       -> ParseBool(val)
    [] ptype = "string"     -> ParseString(val)
    [] ptype \in FloatTypes -> ParseFloatType(ptype, val)
    [] OTHER                -> ParseIntType(ptype, val)

\* P(): the value of a flag that was never set
DefaultValue(ptype) ==
  CASE ptype = "bool"       -> FALSE
    [] ptype = "string"     -> << >>
    [] ptype \in FloatTypes -> Real(FALSE, 0, 0)
    [] OTHER                -> 0

(***************************************************************************)
(* ArgReader.  position indexes argv from 0 as in the source; argv[i] of   *)
(* the source is argv[i + 1] here.                                         *)
(***************************************************************************)
\* ArgReader::ArgReader, with the members' initializers
NewArgReader(argc) ==
  [ argc            |-> IF argc < 0 THEN 0 ELSE argc,
    charKey         |-> NUL,
    key             |-> << >>,
    value           |-> << >>,
    flagAbsent      |-> TRUE,
    flagIsCharacter |-> FALSE,
    valueSpecified  |-> FALSE,
    clearedOut      |-> FALSE,
    position        |-> 0,
    charFlags       |-> << >> ]

atEnd(rd) == rd.clearedOut

hasMoreArguments(rd) == rd.position < rd.argc

hasValue(rd) == rd.valueSpecified

getValue(rd) == rd.value

hasAnyFlag(rd) == ~rd.flagAbsent

hasLongFlag(rd) == ~rd.flagAbsent /\ ~rd.flagIsCharacter

hasShortFlag(rd) == ~rd.flagAbsent /\ rd.flagIsCharacter

getLongFlag(rd) == rd.key

getShortFlag(rd) == rd.charKey

tell(rd) == rd.position

\* the index of the last '=' of s at or after i, 0 when there is none
FindLastEq(s, i) ==
  IF \E k \in i..Len(s) : s[k] = "="
    THEN CHOOSE k \in i..Len(s) :
           s[k] = "=" /\ \A j \in (k + 1)..Len(s) : s[j] # "="
    ELSE 0

\* the index of the first '=' of s at or after i, 0 when there is none
RECURSIVE FindEq(_, _)
FindEq(s, i) ==
  IF i > Len(s) THEN 0 ELSE IF s[i] = "=" THEN i ELSE FindEq(s, i + 1)

\* ArgReader::parseNextArg.  For the argument "-" alone the loop that queues
\* the characters after the first starts past the terminator: see
\* parseNextArgPast.
parseNextArg(rd, argv) ==
  LET r0 == [rd EXCEPT !.flagAbsent = FALSE, !.valueSpecified = FALSE,
                       !.flagIsCharacter = FALSE, !.value = << >>,
                       !.charKey = NUL]
  IN  IF Len(r0.charFlags) > 0
        THEN [r0 EXCEPT !.flagIsCharacter = TRUE,
                        !.charKey = Head(r0.charFlags),
                        !.charFlags = Tail(r0.charFlags)]
      ELSE IF r0.position >= r0.argc
        THEN [r0 EXCEPT !.key = << >>, !.clearedOut = TRUE]
      ELSE IF r0.position + 1 >= r0.argc
        THEN [r0 EXCEPT !.position = r0.position + 1,
                        !.key = << >>, !.clearedOut = TRUE]
      ELSE
        LET r1     == [r0 EXCEPT !.position = r0.position + 1]
            curArg == argv[r1.position + 1]
            eq     == FindEq(curArg, 3)
        IN  IF curArg = << >> \/ curArg[1] # Dash
              THEN [r1 EXCEPT !.key = << >>, !.value = curArg,
                              !.flagAbsent = TRUE, !.valueSpecified = TRUE]
            ELSE IF Len(curArg) >= 2 /\ curArg[2] = Dash
              THEN IF eq # 0
                     THEN [r1 EXCEPT !.key = SubSeq(curArg, 3, eq - 1),
                                     !.value = SubSeq(curArg, eq + 1, Len(curArg)),
                                     !.valueSpecified = TRUE]
                     ELSE [r1 EXCEPT !.key = SubSeq(curArg, 3, Len(curArg))]
            ELSE [r1 EXCEPT !.flagIsCharacter = TRUE, !.key = << >>,
                            !.charKey = IF Len(curArg) >= 2 THEN curArg[2] ELSE NUL,
                            !.charFlags = SubSeq(curArg, 3, Len(curArg))]

\* Which return of parseNextArg a call takes: "queued" (a queued short flag
\* is popped), "end" (no further argument) or "arg" (argv[position] is
\* classified).
BranchOf(rd) ==
  IF Len(rd.charFlags) > 0 THEN "queued"
  ELSE IF rd.position >= rd.argc \/ rd.position + 1 >= rd.argc THEN "end"
  ELSE "arg"

\* What the loop for (i = 2; curArg[i]; ++i) queues when curArg is "-":
\* curArg[1] is the terminator and curArg[2] is read past the end of the
\* string, so the characters found there, up to the next zero, are queued.
PastTheTerminator == { << >>, <<"7">> }

\* parseNextArg, given what is read past the terminator of a "-"
parseNextArgPast(rd, argv, beyond) ==
  IF BranchOf(rd) = "arg" /\ argv[rd.position + 2] = <<Dash>>
    THEN [parseNextArg(rd, argv) EXCEPT !.charFlags = beyond]
    ELSE parseNextArg(rd, argv)

\* nextRawArgument reading argv[position + 1] without moving the position
nextRawArgumentInPlace(rd, raw) ==
  [rd EXCEPT !.flagAbsent = TRUE, !.valueSpecified = TRUE,
             !.flagIsCharacter = FALSE, !.key = << >>, !.value = raw]

\* ArgReader::nextRawArgument, given the string that argv[++position] reads
nextRawArgument(rd, raw) ==
  [rd EXCEPT !.flagAbsent = TRUE, !.valueSpecified = TRUE,
             !.flagIsCharacter = FALSE, !.key = << >>,
             !.position = rd.position + 1, !.value = raw]


(***************************************************************************)
(* The flag classes of the repository's programs.  A class is              *)
(*   kind      "prim" (PrimitiveFlag<P>), "switch", "vector" (VectorFlag), *)
(*             "wrap" (Flag<T, true>, T a FlagBase) or "group";            *)
(*   ptype     the P of a primitive;                                       *)
(*   elem      the class Flag<T> a vector instantiates per occurrence,     *)
(*             or the class T a Flag<T, true> wraps;                       *)
(*   greedy, reentrant   the template arguments of VectorFlag;             *)
(*   fields    a group's flags in declaration order.                       *)
(***************************************************************************)
Class(kind, ptype, elem, greedy, reentrant, fields) ==
  [kind |-> kind, ptype |-> ptype, elem |-> elem, greedy |-> greedy,
   reentrant |-> reentrant, fields |-> fields]

\* Flags::flag(this, name), flag(this, name, shortname), flag(this, shortname)
Field(type, long, short) ==
  [type |-> type, long |-> long, short |-> short, description |-> ""]

\* CtorArgs::description
description(args, desc) == [args EXCEPT !.description = desc]

Prim(ptype) == Class("prim", ptype, "", FALSE, FALSE, << >>)

\* Flag<std::vector<T>>: VectorFlag<T, true, true>
Vector(elem) == Class("vector", "", elem, TRUE, TRUE, << >>)

\* Flag<Sequential<T>>: VectorFlag<T, true, false>
Sequential(elem) == Class("vector", "", elem, TRUE, FALSE, << >>)

\* Flag<Repeated<T>>: VectorFlag<T, false, true>
\* Repeated declared greedy as well
RepeatedGreedy(elem) == Class("vector", "", elem, TRUE, TRUE, << >>)

Repeated(elem) == Class("vector", "", elem, FALSE, TRUE, << >>)

Wrap(group) == Class("wrap", "", group, FALSE, FALSE, << >>)

Group(fields) == Class("group", "", "", FALSE, FALSE, fields)

\* BasicTest::EntityFlags, without its two double-typed flags x and y
EntityFlags ==
  Group(<< description(Field("int64", <<"i","d">>, NUL),
             "The id of the entity."),
           description(Field("string", <<"n","a","m","e">>, NUL),
             "The human-readable name of this entity.") >>)

\* BasicTest::MyFlagGroup
BasicFlagGroup ==
  Group(<< description(Field("bool", <<"a","l","i","v","e">>, NUL),
             "Whether this program is alive."),
           description(Field("int64", <<"p","a","r","a","m">>, NUL),
             "The parameter to this program, which is an int64."),
           description(Field("vector<EntityFlags>", <<"e","n","t","i","t","y">>, NUL),
             "Specifies an entity. You may list more than one."),
           description(Field("vector<int>", <<"i","n","d">>, NUL),
             "Specifies an entity. You may list more than one."),
           description(Field("Switch", <<"t","o","g","g","l","e">>, NUL),
             "If toggled, something might behave differently."),
           description(Field("Switch", <<"t","o","g","g","l","e","2">>, NUL),
             "Similar to toggle, but presumably subtly different.") >>)

\* Test2::RepeatableGroup
RepeatableGroup ==
  Group(<< Field("Sequential<int>", <<"w","e","i","g","h","t","s">>, NUL) >>)

\* Test2::MyFlagGroup, and after its two flags one root-level flag of each
\* remaining kind: the README's Flag<Sequential<T>> and Flag<Repeated<T>>,
\* and a Switch
ModesFlagGroup ==
  Group(<< Field("int64", <<"p","a","r","a","m">>, NUL),
           Field("vector<RepeatableGroup>", <<"l","i","s","t","s">>, NUL),
           Field("Sequential<int>", <<"s","e","q">>, NUL),
           Field("Repeated<int>", <<"r","e","p">>, NUL),
           Field("Switch", <<"s","w">>, "s") >>)

\* DisplayFile of Example.cpp and of the README
DisplayFile ==
  Group(<< description(Field("string", <<"f","i","l","e">>, "f"),
             "Specifies the file to read (reads from stdin by default)."),
           description(Field("string", <<"l","a","b","e","l">>, "l"),
             "Assigns a label to this file's tab."),
           description(Field("vector<int>", <<"b","o","o","k","m","a","r","k">>, "b"),
             "Gives the number of this entity to create."),
           description(Field("Switch", << >>, "p"),
             "Denotes that if this file does not exist, it should be created. If bookmarks are specified, the file will be sized to contain the largest bookmark.") >>)

\* AllFlags of Example.cpp
AllFlags ==
  Group(<< description(
             Field("Repeated<DisplayFile>", <<"d","i","s","p","l","a","y">>, "D"),
             "Create a tab to display a given file.") >>)

\* A group declared with the overloads of Flags::flag: a Flag<vector<int>>
\* named by a character only, flag(this, 'b'); a Switch named by a character
\* only, as DisplayFile's p; and a Switch with a one-letter long name,
\* flag(this, "x")
ShortFlagGroup ==
  Group(<< Field("vector<int>", << >>, "b"),
           Field("Switch", << >>, "p"),
           Field("Switch", <<"x">>, NUL) >>)

\* A group with a nested group declared directly, Flag<EntityFlags> entity =
\* flag(this, "entity"), beside a Switch and a Flag<vector<int>>
NestedFlagGroup ==
  Group(<< description(Field("Switch", <<"t","o","g","g","l","e">>, NUL),
             "If toggled, something might behave differently."),
           description(Field("Flag<EntityFlags>", <<"e","n","t","i","t","y">>, NUL),
             "Specifies an entity. You may list more than one."),
           description(Field("vector<int>", <<"i","n","d">>, NUL),
             "Specifies an entity. You may list more than one.") >>)

\* A group of one flag of each floating-point type: x declared as
\* EntityFlags declares it, flag(this, "x", 'x')
FloatFlagGroup ==
  Group(<< Field("double", <<"x">>, "x"),
           Field("float", <<"f">>, NUL),
           Field("long double", <<"l">>, NUL) >>)

ClassOf(tid) ==
  CASE tid = "bool"   -> Prim("bool")
    [] tid \in FloatTypes  -> Prim(tid)
    [] tid = "FloatFlagGroup" -> FloatFlagGroup
    [] tid = "int"    -> Prim("int32")
    [] tid = "int64"  -> Prim("int64")
    [] tid = "string" -> Prim("string")
    [] tid = "Switch" -> Class("switch", "", "", FALSE, FALSE, << >>)
    [] tid = "vector<int>"     -> Vector("int")
    [] tid = "Sequential<int>" -> Sequential("int")
    [] tid = "Repeated<int>"   -> Repeated("int")
    [] tid = "EntityFlags"           -> EntityFlags
    [] tid = "Flag<EntityFlags>"     -> Wrap("EntityFlags")
    [] tid = "vector<EntityFlags>"   -> Vector("Flag<EntityFlags>")
    [] tid = "BasicFlagGroup"        -> BasicFlagGroup
    [] tid = "RepeatableGroup"         -> RepeatableGroup
    [] tid = "Flag<RepeatableGroup>"   -> Wrap("RepeatableGroup")
    [] tid = "vector<RepeatableGroup>" -> Vector("Flag<RepeatableGroup>")
    [] tid = "ModesFlagGroup"          -> ModesFlagGroup
    [] tid = "DisplayFile"           -> DisplayFile
    [] tid = "Flag<DisplayFile>"     -> Wrap("DisplayFile")
    [] tid = "Repeated<DisplayFile>" -> Repeated("Flag<DisplayFile>")
    [] tid = "AllFlags"              -> AllFlags
    [] tid = "ShortFlagGroup"        -> ShortFlagGroup
    [] tid = "NestedFlagGroup"       -> NestedFlagGroup

(***************************************************************************)
(* Flag objects.  Every object has every member, so that two objects can   *)
(* be compared:                                                            *)
(*   name, shortname   FlagBase::_name, _shortname                         *)
(*   description, valuename   FlagBase::_description, _valuename           *)
(*   present, value    PrimitiveFlag, Switch                               *)
(*   entered, items    VectorFlag::entered, VectorFlag::value              *)
(*   fields            the flags a group declares, in declaration order;   *)
(*                     of a Flag<T, true>, its one member value            *)
(*   members, byLong, byShort   FlagGroup::members, membersByLongName,     *)
(*                     membersByShortName: a pointer is the index of the   *)
(*                     field, and whether it points to the value member    *)
(*                     of the Flag<T, true> there.                         *)
(***************************************************************************)
Ref(f, inner) == [f |-> f, inner |-> inner]

NoRef == Ref(0, FALSE)

BlankFlag(tid, long, short) ==
  [ type |-> tid, name |-> long, shortname |-> short,
    description |-> "", valuename |-> << >>,
    present |-> FALSE, value |-> 0,
    entered |-> FALSE, items |-> << >>,
    fields |-> << >>, members |-> << >>, byLong |-> {}, byShort |-> {} ]

NoFlag == BlankFlag("none", << >>, NUL)

\* addFlag with one index for both kinds of name: a one-letter long name is
\* also a short name and a short name is also a long name
addFlagCrossed(g, ref, long, short) ==
  LET asShort == IF short # NUL THEN short
                 ELSE IF Len(long) = 1 THEN long[1] ELSE NUL
      asLong  == IF long # << >> THEN long
                 ELSE IF short # NUL THEN <<short>> ELSE << >>
  IN  [g EXCEPT
         !.members = Append(@, ref),
         !.byLong  = IF asLong # << >>
                       THEN {e \in @ : e.name # asLong}
                              \cup {[name |-> asLong, ref |-> ref]}
                       ELSE @,
         !.byShort = IF asShort # NUL
                       THEN {e \in @ : e.name # asShort}
                              \cup {[name |-> asShort, ref |-> ref]}
                       ELSE @]

\* FlagGroup::addFlag
addFlag(g, ref, long, short) ==
  [g EXCEPT
     !.members = Append(@, ref),
     !.byLong  = IF long # << >>
                   THEN {e \in @ : e.name # long} \cup {[name |-> long, ref |-> ref]}
                   ELSE @,
     !.byShort = IF short # NUL
                   THEN {e \in @ : e.name # short} \cup {[name |-> short, ref |-> ref]}
                   ELSE @]

RECURSIVE Construct(_, _, _)
RECURSIVE ConstructFields(_, _, _)

\* The constructors: FlagBase::FlagBase, PrimitiveFlag, Switch, VectorFlag,
\* Flag<T, true>::Flag and FlagGroup with its flags' member initializers.
\* The object is not registered here, and has no description yet: its
\* enclosing group does that.
Construct(tid, long, short) ==
  LET c == ClassOf(tid)
      b == BlankFlag(tid, long, short)
  IN  CASE c.kind = "prim"   -> [b EXCEPT !.value = DefaultValue(c.ptype)]
        [] c.kind = "switch" -> b
        [] c.kind = "vector" -> b
        [] c.kind = "wrap"   -> [b EXCEPT !.fields = << Construct(c.elem, long, short) >>]
        [] c.kind = "group"  -> ConstructFields(b, c.fields, 1)

\* FlagBase::FlagBase taking _description from the CtorArgs; a Flag<T, true>
\* hands the same CtorArgs to its value
Described(obj, desc) ==
  IF ClassOf(obj.type).kind = "wrap"
    THEN [obj EXCEPT !.description = desc, !.fields[1].description = desc]
    ELSE [obj EXCEPT !.description = desc]

\* The flags of a group, constructed in declaration order with this as their
\* group: FlagBase::FlagBase registers each as it is built; a Flag<T, true>
\* hands the same CtorArgs to its base and to its value, so both register.
ConstructFields(g, fields, i) ==
  IF i > Len(fields) THEN g
  ELSE
    LET f  == fields[i]
        g1 == [g EXCEPT !.fields =
                 Append(@, Described(Construct(f.type, f.long, f.short),
                                     f.description))]
        g2 == addFlag(g1, Ref(i, FALSE), f.long, f.short)
        g3 == IF ClassOf(f.type).kind = "wrap"
                THEN addFlag(g2, Ref(i, TRUE), f.long, f.short)
                ELSE g2
    IN  ConstructFields(g3, fields, i + 1)

\* *members[i], *flag->second
Deref(g, ref) ==
  IF ref.inner THEN g.fields[ref.f].fields[1] ELSE g.fields[ref.f]

\* the object a pointer of g points to, after a call through the pointer
\* changed it to obj
SetRef(g, ref, obj) ==
  IF ref.inner THEN [g EXCEPT !.fields[ref.f].fields[1] = obj]
  ELSE [g EXCEPT !.fields[ref.f] = obj]

\* newFlag handing out the last entry's parser again instead of a new one
newFlagReused(v) ==
  LET fresh == Construct(ClassOf(v.type).elem, v.name, v.shortname)
  IN  IF v.items # << >> /\ ClassOf(fresh.type).kind = "wrap"
        THEN [fresh EXCEPT !.fields[1] = v.items[Len(v.items)]]
        ELSE fresh

\* VectorFlag::newFlag: instantiate<Flag<T>>(getCtorArgs(nullptr))
newFlag(v) == Construct(ClassOf(v.type).elem, v.name, v.shortname)

\* flag.value of the Flag<T> a vector instantiated
FlagValue(flag) ==
  IF ClassOf(flag.type).kind = "wrap" THEN flag.fields[1] ELSE flag.value

RECURSIVE hasFlag(_, _)
\* hasFlag(string) of PrimitiveFlag, Switch, Flag<T, true>, VectorFlag, FlagGroup
hasFlag(obj, name) ==
  LET c == ClassOf(obj.type)
  IN  CASE c.kind \in {"prim", "switch"} -> obj.name = name
        [] c.kind = "wrap"   -> hasFlag(obj.fields[1], name)
        [] c.kind = "vector" -> obj.name = name \/ hasFlag(newFlag(obj), name)
        [] c.kind = "group"  ->
             \E i \in 1..Len(obj.members) : hasFlag(Deref(obj, obj.members[i]), name)

RECURSIVE hasFlagChar(_, _)
\* hasFlag(char) of the same classes
hasFlagChar(obj, ch) ==
  LET c == ClassOf(obj.type)
  IN  CASE c.kind \in {"prim", "switch"} -> obj.shortname = ch
        [] c.kind = "wrap"   -> hasFlagChar(obj.fields[1], ch)
        [] c.kind = "vector" -> obj.shortname = ch \/ hasFlagChar(newFlag(obj), ch)
        [] c.kind = "group"  ->
             \E i \in 1..Len(obj.members) : hasFlagChar(Deref(obj, obj.members[i]), ch)

RECURSIVE atCapacity(_)
\* atCapacity with a vector never at capacity
atCapacityNeverVector(obj) ==
  LET c == ClassOf(obj.type)
  IN  CASE c.kind \in {"prim", "switch"} -> obj.present
        [] c.kind = "wrap"   -> atCapacity(obj.fields[1])
        [] c.kind = "vector" -> FALSE
        [] c.kind = "group"  ->
             \A i \in 1..Len(obj.members) : atCapacity(Deref(obj, obj.members[i]))

\* atCapacity with a primitive flag never at capacity
atCapacityNeverPrimitive(obj) ==
  LET c == ClassOf(obj.type)
  IN  CASE c.kind = "prim"   -> FALSE
        [] c.kind = "switch" -> obj.present
        [] c.kind = "wrap"   -> atCapacity(obj.fields[1])
        [] c.kind = "vector" -> obj.entered /\ ~c.reentrant
        [] c.kind = "group"  ->
             \A i \in 1..Len(obj.members) : atCapacity(Deref(obj, obj.members[i]))

\* atCapacity of the same classes
atCapacity(obj) ==
  LET c == ClassOf(obj.type)
  IN  CASE c.kind \in {"prim", "switch"} -> obj.present
        [] c.kind = "wrap"   -> atCapacity(obj.fields[1])
        [] c.kind = "vector" -> obj.entered /\ ~c.reentrant
        [] c.kind = "group"  ->
             \A i \in 1..Len(obj.members) : atCapacity(Deref(obj, obj.members[i]))

\* canReenter without the test of reentrant
canReenterAnyway(rd, flag, reentrant) ==
  IF hasShortFlag(rd) THEN hasFlagChar(flag, getShortFlag(rd))
  ELSE hasFlag(flag, getLongFlag(rd))

\* VectorFlag::canReenter
canReenter(rd, flag, reentrant) ==
  IF ~reentrant THEN FALSE
  ELSE IF hasShortFlag(rd) THEN hasFlagChar(flag, getShortFlag(rd))
  ELSE hasFlag(flag, getLongFlag(rd))


(***************************************************************************)
(* Help.  A stream is the sequence of the characters written to it; ESC    *)
(* is the character \x1B and NL the one std::endl writes.                  *)
(***************************************************************************)
ESC == "ESC"

NL == "\n"

\* the characters of a string literal of the sources
Text(s) ==
  CASE s = "The id of the entity." ->
       <<"T","h","e"," ","i","d"," ","o","f"," ","t","h","e"," ","e","n",
         "t","i","t","y",".">>
    [] s = "The human-readable name of this entity." ->
       <<"T","h","e"," ","h","u","m","a","n","-","r","e","a","d","a","b",
         "l","e"," ","n","a","m","e"," ","o","f"," ","t","h","i","s"," ",
         "e","n","t","i","t","y",".">>
    [] s = "Whether this program is alive." ->
       <<"W","h","e","t","h","e","r"," ","t","h","i","s"," ","p","r","o",
         "g","r","a","m"," ","i","s"," ","a","l","i","v","e",".">>
    [] s = "The parameter to this program, which is an int64." ->
       <<"T","h","e"," ","p","a","r","a","m","e","t","e","r"," ","t","o",
         " ","t","h","i","s"," ","p","r","o","g","r","a","m",","," ","w",
         "h","i","c","h"," ","i","s"," ","a","n"," ","i","n","t","6","4",
         ".">>
    [] s = "Specifies an entity. You may list more than one." ->
       <<"S","p","e","c","i","f","i","e","s"," ","a","n"," ","e","n","t",
         "i","t","y","."," ","Y","o","u"," ","m","a","y"," ","l","i","s",
         "t"," ","m","o","r","e"," ","t","h","a","n"," ","o","n","e",".">>
    [] s = "If toggled, something might behave differently." ->
       <<"I","f"," ","t","o","g","g","l","e","d",","," ","s","o","m","e",
         "t","h","i","n","g"," ","m","i","g","h","t"," ","b","e","h","a",
         "v","e"," ","d","i","f","f","e","r","e","n","t","l","y",".">>
    [] s = "Similar to toggle, but presumably subtly different." ->
       <<"S","i","m","i","l","a","r"," ","t","o"," ","t","o","g","g","l",
         "e",","," ","b","u","t"," ","p","r","e","s","u","m","a","b","l",
         "y"," ","s","u","b","t","l","y"," ","d","i","f","f","e","r","e",
         "n","t",".">>
    [] s = "Specifies the file to read (reads from stdin by default)." ->
       <<"S","p","e","c","i","f","i","e","s"," ","t","h","e"," ","f","i",
         "l","e"," ","t","o"," ","r","e","a","d"," ","(","r","e","a","d",
         "s"," ","f","r","o","m"," ","s","t","d","i","n"," ","b","y"," ",
         "d","e","f","a","u","l","t",")",".">>
    [] s = "Assigns a label to this file's tab." ->
       <<"A","s","s","i","g","n","s"," ","a"," ","l","a","b","e","l"," ",
         "t","o"," ","t","h","i","s"," ","f","i","l","e","'","s"," ","t",
         "a","b",".">>
    [] s = "Gives the number of this entity to create." ->
       <<"G","i","v","e","s"," ","t","h","e"," ","n","u","m","b","e","r",
         " ","o","f"," ","t","h","i","s"," ","e","n","t","i","t","y"," ",
         "t","o"," ","c","r","e","a","t","e",".">>
    [] s = "Denotes that if this file does not exist, it should be created. If bookmarks are specified, the file will be sized to contain the largest bookmark." ->
       <<"D","e","n","o","t","e","s"," ","t","h","a","t"," ","i","f"," ",
         "t","h","i","s"," ","f","i","l","e"," ","d","o","e","s"," ","n",
         "o","t"," ","e","x","i","s","t",","," ","i","t"," ","s","h","o",
         "u","l","d"," ","b","e"," ","c","r","e","a","t","e","d","."," ",
         "I","f"," ","b","o","o","k","m","a","r","k","s"," ","a","r","e",
         " ","s","p","e","c","i","f","i","e","d",","," ","t","h","e"," ",
         "f","i","l","e"," ","w","i","l","l"," ","b","e"," ","s","i","z",
         "e","d"," ","t","o"," ","c","o","n","t","a","i","n"," ","t","h",
         "e"," ","l","a","r","g","e","s","t"," ","b","o","o","k","m","a",
         "r","k",".">>
    [] s = "Create a tab to display a given file." ->
       <<"C","r","e","a","t","e"," ","a"," ","t","a","b"," ","t","o"," ",
         "d","i","s","p","l","a","y"," ","a"," ","g","i","v","e","n"," ",
         "f","i","l","e",".">>
    [] s = " (Flag can " ->
       <<" ","(","F","l","a","g"," ","c","a","n"," ">>
    [] s = "also be" ->
       <<"a","l","s","o"," ","b","e">>
    [] s = "be" ->
       <<"b","e">>
    [] s = " repeated)" ->
       <<" ","r","e","p","e","a","t","e","d",")">>
    [] s = "[Repeatable]" ->
       <<"[","R","e","p","e","a","t","a","b","l","e","]">>
    [] s = "[Accepts multiple values]" ->
       <<"[","A","c","c","e","p","t","s"," ","m","u","l","t","i","p","l",
         "e"," ","v","a","l","u","e","s","]">>
    [] s = "" -> << >>

\* FlagProperties
FlagProperties(flagName, shortName, valueName, isGreedy, isReentrant) ==
  [flagName |-> flagName, shortName |-> shortName, valueName |-> valueName,
   greedy |-> isGreedy, reentrant |-> isReentrant]

hasAnyName(props) == props.shortName # NUL \/ props.flagName # << >>

\* FlagProperties::listFlagNames
listFlagNames(props) ==
  IF props.flagName # << >>
    THEN IF props.shortName # NUL
           THEN <<"-", "-">> \o props.flagName \o <<",", " ", "-", props.shortName>>
           ELSE <<"-", "-">> \o props.flagName
    ELSE IF props.shortName # NUL THEN <<"-", props.shortName>> ELSE << >>

\* getenv("COLUMNS") is not set
getConsoleWidth == 80

\* one call of a HelpPrinter's enterFlag, writeBlock or leaveFlag, with its
\* argument
PrinterCall(call, props, block) == [call |-> call, props |-> props, block |-> block]

NoProps == FlagProperties(<< >>, NUL, << >>, FALSE, FALSE)

\* BasicHelpPrinter(ostream): the printer's members, the stream it writes
\* to, and the HelpPrinter calls it has received
BasicHelpPrinter ==
  [consoleWidth |-> getConsoleWidth, stream |-> << >>, inFlag |-> FALSE,
   indent |-> 0, calls |-> << >>]

Spaces(n) == [i \in 1..n |-> " "]

\* BasicHelpPrinter::writeIndentation
writeIndentation(pr) == [pr EXCEPT !.stream = @ \o Spaces(pr.indent)]

Least(S) == CHOOSE x \in S : \A y \in S : x <= y

RECURSIVE WriteWords(_, _, _, _, _)
\* the loop of writeIndentedBlock from text[i] on, text[0] the first character
WriteWords(text, i, lineStart, pr, workingSpace) ==
  LET tlen == Len(text)
      indentStart == i
      wordStart == Least({j \in i..tlen : j = tlen \/ ~IsSpace(text[j + 1])})
  IN  IF i >= tlen \/ wordStart >= tlen THEN pr
      ELSE
        LET wordEnd == Least({j \in (wordStart + 1)..tlen :
                                j = tlen \/ IsSpace(text[j + 1])})
            word    == SubSeq(text, wordStart + 1, wordEnd)
        IN  IF wordEnd - lineStart > workingSpace
              THEN LET broken == writeIndentation([pr EXCEPT !.stream = @ \o <<NL>>])
                   IN  WriteWords(text, wordEnd, wordStart,
                                  [broken EXCEPT !.stream = @ \o word],
                                  workingSpace)
              ELSE WriteWords(text, wordEnd, lineStart,
                              [pr EXCEPT !.stream =
                                 @ \o SubSeq(text, indentStart + 1, wordStart) \o word],
                              workingSpace)

\* BasicHelpPrinter::writeIndentedBlock
writeIndentedBlock(pr, text) ==
  LET written == WriteWords(text, 0, 0, writeIndentation(pr),
                            pr.consoleWidth - pr.indent)
  IN  [written EXCEPT !.stream = @ \o <<NL, NL>>]

\* BasicHelpPrinter::writeFlagHeader
writeFlagHeader(props) ==
  LET names == IF hasAnyName(props) THEN listFlagNames(props) ELSE << >>
      written == hasAnyName(props)
  IN  IF props.valueName # << >>
        THEN names
             \o (IF written THEN <<" ">> ELSE <<"[">>)
             \o props.valueName
             \o (IF props.greedy
                   THEN <<" ", "[">> \o props.valueName \o <<" ", "[">>
                        \o props.valueName \o <<".", ".", ".", "]", "]">>
                   ELSE << >>)
             \o (IF ~written THEN <<"]">> ELSE << >>)
             \o (IF props.reentrant
                   THEN Text(" (Flag can ")
                        \o Text(IF props.greedy THEN "also be" ELSE "be")
                        \o Text(" repeated)")
                   ELSE << >>)
        ELSE names
             \o (IF props.reentrant
                   THEN (IF written THEN <<" ">> ELSE << >>) \o Text("[Repeatable]")
                   ELSE << >>)
             \o (IF props.greedy
                   THEN (IF written \/ props.reentrant THEN <<" ">> ELSE << >>)
                        \o Text("[Accepts multiple values]")
                   ELSE << >>)

\* BasicHelpPrinter::enterFlag
enterFlag(pr, props) ==
  LET called == [pr EXCEPT !.calls = Append(@, PrinterCall("enterFlag", props, << >>))]
      headed ==
        IF hasAnyName(props)
          THEN [writeIndentation(called) EXCEPT
                  !.stream = @ \o <<ESC, "[", "1", "m">> \o writeFlagHeader(props)
                               \o <<ESC, "[", "0", "m">> \o <<NL, NL>>,
                  !.inFlag = TRUE]
          ELSE called
  IN  IF headed.inFlag
        THEN [headed EXCEPT !.indent = @ + 2]
        ELSE [headed EXCEPT !.inFlag = TRUE]

\* BasicHelpPrinter::writeBlock
writeBlock(pr, block) ==
  writeIndentedBlock(
    [pr EXCEPT !.calls = Append(@, PrinterCall("writeBlock", NoProps, block))], block)

\* BasicHelpPrinter::leaveFlag
leaveFlag(pr) ==
  [pr EXCEPT !.calls = Append(@, PrinterCall("leaveFlag", NoProps, << >>)),
             !.indent = IF @ > 2 THEN @ - 2 ELSE 0]

\* FlagBase::makeProps
makeProps(obj, greedy, reentrant) ==
  FlagProperties(obj.name, obj.shortname, obj.valuename, greedy, reentrant)

\* VectorFlag::newAnonymousFlag: instantiate<Flag<T>>(CtorArgs())
newAnonymousFlag(v) == Construct(ClassOf(v.type).elem, << >>, NUL)

\* if (hasDescription()) printer.writeBlock(getDescription())
Describe(obj, pr) ==
  IF obj.description # "" THEN writeBlock(pr, Text(obj.description)) ELSE pr

RECURSIVE printHelp(_, _)
RECURSIVE printMembers(_, _, _)

\* printHelp(HelpPrinter&) of FlagBase, Flag<T, true>, VectorFlag, FlagGroup
printHelp(obj, pr) ==
  LET c == ClassOf(obj.type)
  IN  CASE c.kind \in {"prim", "switch"} ->
             leaveFlag(Describe(obj, enterFlag(pr, makeProps(obj, FALSE, FALSE))))
        [] c.kind = "wrap" -> printHelp(obj.fields[1], pr)
        [] c.kind = "vector" ->
             LET entered ==
                   Describe(obj, enterFlag(pr, makeProps(obj, c.greedy, c.reentrant)))
             IN  leaveFlag(printHelp(newAnonymousFlag(obj), entered))
        [] c.kind = "group" ->
             leaveFlag(printMembers(obj, 1,
                                    enterFlag(pr, makeProps(obj, FALSE, FALSE))))

\* for (FlagBase *flag : members) printHelpR(flag, printer), from members[i]
printMembers(g, i, pr) ==
  IF i > Len(g.members) THEN pr
  ELSE printMembers(g, i + 1, printHelp(Deref(g, g.members[i]), pr))

\* FlagGroup::printHelp(std::ostream&)
printHelpStream(obj) == printHelp(obj, BasicHelpPrinter)

(***************************************************************************)
(* The program state.                                                      *)
(***************************************************************************)
VARIABLES
  argc,    \* parseArgs' first argument
  argv,    \* parseArgs' second argument: argv[1] is the program name
  flags,   \* the flag tree parseArgs is called on
  rd,      \* the ArgReader of the call
  stack,   \* the parseArgsR calls in progress, the innermost last
  ret,     \* the last return of a parseArgsR: its value and its object
  pc,      \* "start", "running", "done", or "crashed" (undefined behaviour);
           \* of an ArgReader used alone, the last call: see BranchOf
  result,  \* what parseArgs returned
  err,     \* the diagnostics written to stderr, in order
  printer, \* the caller's BasicHelpPrinter
  helps    \* what each printHelp call so far has written, in order

vars == <<argc, argv, flags, rd, stack, ret, pc, result, err, printer, helps>>

\* the state as one record, for the operators that compute a step
Machine ==
  [argc |-> argc, argv |-> argv, flags |-> flags, rd |-> rd, stack |-> stack,
   ret |-> ret, pc |-> pc, result |-> result, err |-> err]

Becomes(m) ==
  /\ argc' = m.argc
  /\ argv' = m.argv
  /\ flags' = m.flags
  /\ rd' = m.rd
  /\ stack' = m.stack
  /\ ret' = m.ret
  /\ pc' = m.pc
  /\ result' = m.result
  /\ err' = m.err
  /\ UNCHANGED <<printer, helps>>

NoRet == [set |-> FALSE, ok |-> FALSE, self |-> NoFlag]

\* the virtual parseArgsR a call on the object runs
FnOf(obj) ==
  LET k == ClassOf(obj.type).kind
  IN  IF k = "prim" THEN "singleton" ELSE k

\* A call in progress: the function, where it stands ("entry", "loop",
\* "call", "tail"), this, and its locals: the position saved before a
\* delegation, the member delegated to and whether the token was a long flag.
Frame(obj) ==
  [fn |-> FnOf(obj), at |-> "entry", self |-> obj,
   pos |-> 0, ref |-> NoRef, long |-> FALSE]

Top(m) == m.stack[Len(m.stack)]

SetTop(m, fr) == [m EXCEPT !.stack[Len(m.stack)] = fr]

\* invokeParse(obj, argReader)
Call(m, obj) == [m EXCEPT !.stack = Append(@, Frame(obj)), !.ret = NoRet]

\* return ok, leaving the object as the call changed it
Return(m, ok, obj) ==
  [m EXCEPT !.stack = SubSeq(@, 1, Len(@) - 1),
            !.ret = [set |-> TRUE, ok |-> ok, self |-> obj]]

Running(m, fn, at) ==
  /\ m.pc = "running"
  /\ m.stack # << >>
  /\ Top(m).fn = fn
  /\ Top(m).at = at
  /\ (at \in {"call", "tail"}) = m.ret.set

(***************************************************************************)
(* What reading argv[argc] can give (SingletonFlag::parseArgsR reads it    *)
(* when the flag is named by the last argument without a value): a main's  *)
(* argv ends with a null pointer, and a std::string made of one is         *)
(* undefined; an array like the tests' is read past its end.  The build    *)
(* either crashes or reads some string.                                    *)
(***************************************************************************)
PastTheEnd ==
  { [crash |-> TRUE, raw |-> << >>],
    [crash |-> FALSE, raw |-> <<"7">>],
    [crash |-> FALSE, raw |-> <<"?">>] }

Crash == [crash |-> TRUE, raw |-> << >>]

(***************************************************************************)
(* FlagBase::parseArgs                                                     *)
(***************************************************************************)
\* parseArgs returning early only when argc < 1
ParseArgsBeginFromOne(m) ==
  IF m.argc < 1
    THEN [m EXCEPT !.pc = "done", !.result = TRUE]
    ELSE Call([m EXCEPT !.pc = "running",
                        !.rd = parseNextArg(NewArgReader(m.argc), m.argv)],
              m.flags)

\* parseArgs up to its call of parseArgsR
ParseArgsBegin(m) ==
  IF m.argc < 2
    THEN [m EXCEPT !.pc = "done", !.result = TRUE]
    ELSE Call([m EXCEPT !.pc = "running",
                        !.rd = parseNextArg(NewArgReader(m.argc), m.argv)],
              m.flags)

\* parseArgs without its check of atEnd
ParseArgsEndUnchecked(m) ==
  [m EXCEPT !.pc = "done", !.flags = m.ret.self, !.result = m.ret.ok]

\* parseArgs from the return of parseArgsR
ParseArgsEnd(m) ==
  LET m1 == [m EXCEPT !.pc = "done", !.flags = m.ret.self]
  IN  IF ~m.ret.ok THEN [m1 EXCEPT !.result = FALSE]
      ELSE IF ~atEnd(m.rd)
        THEN [m1 EXCEPT !.result = FALSE,
                !.err = Append(@,
                   IF hasLongFlag(m.rd) THEN "Unexpected flag (long)"
                   ELSE IF hasShortFlag(m.rd) THEN "Unexpected flag (short)"
                   ELSE IF hasValue(m.rd) THEN "Expected flag name, but got"
                   ELSE "Internal error: Not all arguments were read")]
      ELSE [m1 EXCEPT !.result = TRUE]

(***************************************************************************)
(* SingletonFlag::parseArgsR with PrimitiveFlag::parse                     *)
(***************************************************************************)
\* parse storing the value without present = true
parseUnmarked(obj, rawvalue) ==
  LET parsed == ParseType(ClassOf(obj.type).ptype, rawvalue)
  IN  IF parsed.error THEN [self |-> obj, ok |-> FALSE]
      ELSE [self |-> [obj EXCEPT !.value = parsed.value], ok |-> TRUE]

\* PrimitiveFlag::parse: [the flag after the call, the value returned]
parse(obj, rawvalue) ==
  LET parsed == ParseType(ClassOf(obj.type).ptype, rawvalue)
  IN  IF parsed.error THEN [self |-> obj, ok |-> FALSE]
      ELSE [self |-> [obj EXCEPT !.value = parsed.value, !.present = TRUE],
            ok |-> TRUE]

\* the rest of SingletonFlag::parseArgsR once the raw value is at hand
SingletonParsed(m, rd1, rawvalue) ==
  LET p == parse(Top(m).self, rawvalue)
  IN  IF ~p.ok THEN Return([m EXCEPT !.rd = rd1], FALSE, p.self)
      ELSE Return([m EXCEPT !.rd = parseNextArg(rd1, m.argv)], TRUE, p.self)

\* parseArgsR refusing a next argument that starts with '-'
SingletonParseArgsRBareOnly(m, past) ==
  IF hasValue(m.rd)
    THEN SingletonParsed(m, m.rd, getValue(m.rd))
  ELSE IF hasMoreArguments(m.rd)
    THEN IF m.rd.position + 1 < Len(m.argv)
           THEN IF m.argv[m.rd.position + 2] # << >>
                   /\ m.argv[m.rd.position + 2][1] = Dash
                  THEN Return(m, FALSE, Top(m).self)
                  ELSE SingletonParsed(m,
                         nextRawArgument(m.rd, m.argv[m.rd.position + 2]),
                         m.argv[m.rd.position + 2])
         ELSE IF past.crash THEN [m EXCEPT !.pc = "crashed"]
         ELSE SingletonParsed(m, nextRawArgument(m.rd, past.raw), past.raw)
  ELSE Return(m, FALSE, Top(m).self)

SingletonParseArgsR(m, past) ==
  IF hasValue(m.rd)
    THEN SingletonParsed(m, m.rd, getValue(m.rd))
  ELSE IF hasMoreArguments(m.rd)
    THEN IF m.rd.position + 1 < Len(m.argv)
           THEN SingletonParsed(m, nextRawArgument(m.rd, m.argv[m.rd.position + 2]),
                                m.argv[m.rd.position + 2])
         ELSE IF past.crash THEN [m EXCEPT !.pc = "crashed"]
         ELSE SingletonParsed(m, nextRawArgument(m.rd, past.raw), past.raw)
  ELSE Return(m, FALSE, Top(m).self)

(***************************************************************************)
(* Switch::parseArgsR                                                      *)
(***************************************************************************)
\* parseArgsR without the test of an attached value
SwitchParseArgsRAnyway(m) ==
  Return([m EXCEPT !.rd = parseNextArg(m.rd, m.argv)],
         TRUE, [Top(m).self EXCEPT !.present = TRUE])

\* parseArgsR leaving the token where it is
SwitchParseArgsRInPlace(m) ==
  IF hasValue(m.rd)
    THEN Return([m EXCEPT !.err = Append(@, "is a switch and cannot accept a value")],
                FALSE, Top(m).self)
    ELSE Return(m, TRUE, [Top(m).self EXCEPT !.present = TRUE])

SwitchParseArgsR(m) ==
  IF hasValue(m.rd)
    THEN Return([m EXCEPT !.err = Append(@, "is a switch and cannot accept a value")],
                FALSE, Top(m).self)
    ELSE Return([m EXCEPT !.rd = parseNextArg(m.rd, m.argv)],
                TRUE, [Top(m).self EXCEPT !.present = TRUE])

(***************************************************************************)
(* Flag<T, true>::parseArgsR: invokeParse(&value, argReader)               *)
(***************************************************************************)
WrapParseArgsR(m) ==
  Call(SetTop(m, [Top(m) EXCEPT !.at = "call"]), Top(m).self.fields[1])

WrapReturn(m) ==
  Return(m, m.ret.ok, [Top(m).self EXCEPT !.fields[1] = m.ret.self])

(***************************************************************************)
(* VectorFlag::parseArgsR                                                  *)
(***************************************************************************)
\* up to invokeParse(&flag, argReader)
VectorParseArgsR(m) ==
  LET self == [Top(m).self EXCEPT !.entered = TRUE]
  IN  Call(SetTop(m, [Top(m) EXCEPT !.at = "call", !.self = self,
                                    !.pos = tell(m.rd)]),
           newFlag(self))

\* the value put at the front instead
push_front(self, flag) ==
  [self EXCEPT !.items = << IF ClassOf(flag.type).kind = "wrap"
                              THEN flag.fields[1] ELSE flag.value >> \o @]

\* value.push_back(flag.value)
push_back(self, flag) == [self EXCEPT !.items = Append(@, FlagValue(flag))]

\* from the return of invokeParse(&flag, argReader)
VectorAfterParse(m) ==
  LET fr   == Top(m)
      c    == ClassOf(fr.self.type)
      flag == m.ret.self
      self == push_back(fr.self, flag)
  IN  IF ~m.ret.ok THEN Return(m, FALSE, fr.self)
      ELSE IF fr.pos = tell(m.rd) THEN Return(m, TRUE, fr.self)
      ELSE IF c.greedy /\ (~hasAnyFlag(m.rd) \/ canReenter(m.rd, flag, c.reentrant))
        THEN Call(SetTop(m, [fr EXCEPT !.at = "tail", !.self = self]), self)
      ELSE Return(m, TRUE, self)

\* return parseArgsR(argReader): the call ran on this
VectorTailReturn(m) == Return(m, m.ret.ok, m.ret.self)

(***************************************************************************)
(* FlagGroup::parseArgsR                                                   *)
(***************************************************************************)
\* parseArgsR stepping over a bare value instead of rejecting it
GroupParseArgsRSkipsValue(m) ==
  LET self == Top(m).self
  IN  IF hasLongFlag(m.rd) = hasShortFlag(m.rd) /\ hasLongFlag(m.rd)
        THEN Return([m EXCEPT !.err = Append(@, "Internal error: concurrently read flags")],
                    FALSE, self)
      ELSE IF hasLongFlag(m.rd) = hasShortFlag(m.rd)
        THEN SetTop([m EXCEPT !.rd = parseNextArg(m.rd, m.argv)],
                    [Top(m) EXCEPT !.at = "loop"])
      ELSE SetTop([m EXCEPT !.rd =
                     IF \/ /\ self.name # << >>
                           /\ hasLongFlag(m.rd)
                           /\ self.name = getLongFlag(m.rd)
                        \/ /\ self.shortname # NUL
                           /\ hasShortFlag(m.rd)
                           /\ self.shortname = getShortFlag(m.rd)
                       THEN parseNextArg(m.rd, m.argv) ELSE m.rd],
                  [Top(m) EXCEPT !.at = "loop"])

\* the sanity check and the skip of the group's own name
GroupParseArgsR(m) ==
  LET self == Top(m).self
      own  == \/ /\ self.name # << >>
                 /\ hasLongFlag(m.rd)
                 /\ self.name = getLongFlag(m.rd)
              \/ /\ self.shortname # NUL
                 /\ hasShortFlag(m.rd)
                 /\ self.shortname = getShortFlag(m.rd)
  IN  IF hasLongFlag(m.rd) = hasShortFlag(m.rd)
        THEN Return([m EXCEPT !.err = Append(@,
                       IF hasLongFlag(m.rd) THEN "Internal error: concurrently read flags"
                       ELSE IF hasValue(m.rd) THEN "Expected flag name, got"
                       ELSE "Internal error: flag parser invoked with no data")],
                    FALSE, self)
      ELSE SetTop([m EXCEPT !.rd = IF own THEN parseNextArg(m.rd, m.argv) ELSE m.rd],
                  [Top(m) EXCEPT !.at = "loop"])

\* find by prefix: the longest of the names that begin with the name sought
FindByPrefix(index, name) ==
  LET begins(e) == \/ e.name = name
                   \/ /\ Len(e.name) >= Len(name)
                      /\ SubSeq(e.name, 1, Len(name)) = name
  IN  {e \in index : /\ begins(e)
                     /\ \A f \in index : begins(f) => Len(f.name) <= Len(e.name)}

\* membersByLongName.find, membersByShortName.find: the entries found
Find(index, name) == {e \in index : e.name = name}

\* the turn reporting a name it does not find
GroupDispatchReports(m) ==
  LET fr    == Top(m)
      long  == hasLongFlag(m.rd)
      found == IF long THEN Find(fr.self.byLong, getLongFlag(m.rd))
               ELSE Find(fr.self.byShort, getShortFlag(m.rd))
      ref   == (CHOOSE e \in found : TRUE).ref
  IN  IF atEnd(m.rd) THEN Return(m, TRUE, fr.self)
      ELSE IF found = {}
        THEN Return([m EXCEPT !.err = Append(@,
                       IF long THEN "Unexpected flag (long)"
                       ELSE "Unexpected flag (short)")],
                    TRUE, fr.self)
      ELSE IF atCapacity(Deref(fr.self, ref)) THEN Return(m, TRUE, fr.self)
      ELSE Call(SetTop(m, [fr EXCEPT !.at = "call", !.pos = tell(m.rd),
                                     !.ref = ref, !.long = long]),
                Deref(fr.self, ref))

\* one turn of the while loop, up to invokeParse(flag->second, argReader)
GroupDispatch(m) ==
  LET fr    == Top(m)
      long  == hasLongFlag(m.rd)
      found == IF long THEN Find(fr.self.byLong, getLongFlag(m.rd))
               ELSE Find(fr.self.byShort, getShortFlag(m.rd))
      ref   == (CHOOSE e \in found : TRUE).ref
  IN  IF atEnd(m.rd) THEN Return(m, TRUE, fr.self)
      ELSE IF found = {} THEN Return(m, TRUE, fr.self)
      ELSE IF atCapacity(Deref(fr.self, ref)) THEN Return(m, TRUE, fr.self)
      ELSE Call(SetTop(m, [fr EXCEPT !.at = "call", !.pos = tell(m.rd),
                                     !.ref = ref, !.long = long]),
                Deref(fr.self, ref))

\* the turn from the return of invokeParse: only the long-flag branch
\* compares the position
GroupAfterParse(m) ==
  LET fr   == Top(m)
      self == SetRef(fr.self, fr.ref, m.ret.self)
  IN  IF ~m.ret.ok THEN Return(m, FALSE, self)
      ELSE IF fr.long /\ tell(m.rd) = fr.pos THEN Return(m, TRUE, self)
      ELSE SetTop([m EXCEPT !.ret = NoRet], [fr EXCEPT !.at = "loop", !.self = self])

(***************************************************************************)
(* The actions: one per function, or per part of a function between two    *)
(* calls.                                                                  *)
(***************************************************************************)
ParseArgs ==
  /\ pc = "start"
  /\ Becomes(ParseArgsBegin(Machine))

ParseArgsReturn ==
  /\ pc = "running"
  /\ stack = << >>
  /\ ret.set
  /\ Becomes(ParseArgsEnd(Machine))

Singleton ==
  /\ Running(Machine, "singleton", "entry")
  /\ \E past \in PastTheEnd : Becomes(SingletonParseArgsR(Machine, past))

Switch ==
  /\ Running(Machine, "switch", "entry")
  /\ Becomes(SwitchParseArgsR(Machine))

WrapEnter ==
  /\ Running(Machine, "wrap", "entry")
  /\ Becomes(WrapParseArgsR(Machine))

WrapLeave ==
  /\ Running(Machine, "wrap", "call")
  /\ Becomes(WrapReturn(Machine))

VectorEnter ==
  /\ Running(Machine, "vector", "entry")
  /\ Becomes(VectorParseArgsR(Machine))

VectorParsed ==
  /\ Running(Machine, "vector", "call")
  /\ Becomes(VectorAfterParse(Machine))

VectorTail ==
  /\ Running(Machine, "vector", "tail")
  /\ Becomes(VectorTailReturn(Machine))

GroupEnter ==
  /\ Running(Machine, "group", "entry")
  /\ Becomes(GroupParseArgsR(Machine))

GroupLoop ==
  /\ Running(Machine, "group", "loop")
  /\ Becomes(GroupDispatch(Machine))

GroupParsed ==
  /\ Running(Machine, "group", "call")
  /\ Becomes(GroupAfterParse(Machine))

Next ==
  \/ ParseArgs
  \/ ParseArgsReturn
  \/ Singleton
  \/ Switch
  \/ WrapEnter
  \/ WrapLeave
  \/ VectorEnter
  \/ VectorParsed
  \/ VectorTail
  \/ GroupEnter
  \/ GroupLoop
  \/ GroupParsed

(***************************************************************************)
(* One step of the machine as a function, and the run to its end: the      *)
(* same operators as the actions, and a read past the end of argv stops    *)
(* the run ("crashed").                                                    *)
(***************************************************************************)
Step(m) ==
  IF m.pc = "start" THEN ParseArgsBegin(m)
  ELSE IF m.stack = << >> THEN ParseArgsEnd(m)
  ELSE
    LET fn == Top(m).fn
        at == Top(m).at
    IN  CASE fn = "singleton" -> SingletonParseArgsR(m, Crash)
          [] fn = "switch"    -> SwitchParseArgsR(m)
          [] fn = "wrap"   /\ at = "entry" -> WrapParseArgsR(m)
          [] fn = "wrap"   /\ at = "call"  -> WrapReturn(m)
          [] fn = "vector" /\ at = "entry" -> VectorParseArgsR(m)
          [] fn = "vector" /\ at = "call"  -> VectorAfterParse(m)
          [] fn = "vector" /\ at = "tail"  -> VectorTailReturn(m)
          [] fn = "group"  /\ at = "entry" -> GroupParseArgsR(m)
          [] fn = "group"  /\ at = "loop"  -> GroupDispatch(m)
          [] fn = "group"  /\ at = "call"  -> GroupAfterParse(m)

RECURSIVE Run(_)
Run(m) == IF m.pc \in {"done", "crashed"} THEN m ELSE Run(Step(m))

\* the state before parseArgs(Len(args), args) on a fresh tree of the class
Fresh(tid, args) ==
  [argc |-> Len(args), argv |-> args, flags |-> Construct(tid, << >>, NUL),
   rd |-> NewArgReader(0), stack |-> << >>, ret |-> NoRet, pc |-> "start",
   result |-> FALSE, err |-> << >>]


(***************************************************************************)
(* Command lines.  A command line is the program name and at most          *)
(* MaxPhrases phrases of a vocabulary; a phrase is one argument or a few.  *)
(***************************************************************************)
Prog == <<"p","r","o","g">>

\* the arguments --name, --name=value and -c1c2..
Long(name) == <<"-", "-">> \o name

LongEq(name, val) == Long(name) \o <<"=">> \o val

Short(chars) == <<"-">> \o chars

RECURSIVE Lines(_, _)
Lines(vocab, n) ==
  IF n = 0 THEN { << >> }
  ELSE LET shorter == Lines(vocab, n - 1)
       IN  shorter \cup { l \o p : l \in shorter, p \in vocab }

\* before parseArgs(argc, argv) on a fresh tree of the class, for each
\* command line of the vocabulary
InitLines(tid, vocab, n) ==
  /\ argv \in { <<Prog>> \o l : l \in Lines(vocab, n) }
  /\ argc = Len(argv)
  /\ flags = Construct(tid, << >>, NUL)
  /\ rd = NewArgReader(0)
  /\ stack = << >>
  /\ ret = NoRet
  /\ pc = "start"
  /\ result = FALSE
  /\ err = << >>
  /\ printer = BasicHelpPrinter
  /\ helps = << >>

InitWith(tid, vocab) == InitLines(tid, vocab, MaxPhrases)

(***************************************************************************)
(* The README's example: AllFlags of Example.cpp, whose one flag is the    *)
(* Repeated<DisplayFile> display, 'D'.  The vocabulary is short flags of   *)
(* DisplayFile, alone and stacked, and a value.                            *)
(***************************************************************************)
ExampleVocab ==
  { << Short(<<"D">>) >>, << Short(<<"p">>) >>, << Short(<<"b">>) >>,
    << <<"1","0">> >>, << Short(<<"D","D">>) >>, << Short(<<"b","p">>) >> }

InitExample == InitWith("AllFlags", ExampleVocab)

SpecExample == InitExample /\ [][Next]_vars

(***************************************************************************)
(* C1.  parseArgs with argc >= 2 returns true only if the tokenizer was    *)
(* at end-of-stream when the root's parseArgsR returned: no raw argument   *)
(* and no queued short flag was left.  Whenever the root's parseArgsR      *)
(* returned success with a token left, parseArgs returns false.            *)
(***************************************************************************)
C1_TrueOnlyAtEndOfStream ==
  (pc = "done" /\ argc >= 2) =>
     /\ result => /\ ret.ok
                  /\ atEnd(rd)
                  /\ rd.charFlags = << >>
                  /\ rd.position >= argc
     /\ (ret.ok /\ ~atEnd(rd)) => ~result

\* the root returned success with a queued short flag left, and parseArgs
\* returned false
C1_Witness ==
  /\ pc = "done"
  /\ ret.ok
  /\ ~atEnd(rd)
  /\ rd.charFlags # << >>
  /\ ~result


(***************************************************************************)
(* BasicTest::MyFlagGroup with the forms of BasicFlags' command line: the  *)
(* vector ind with a separate, an attached and a juxtaposed value, the     *)
(* vector of groups entity and its flag id, and a switch.                  *)
(***************************************************************************)
nInd == <<"i","n","d">>

nId == <<"i","d">>

nEntity == <<"e","n","t","i","t","y">>

nToggle == <<"t","o","g","g","l","e">>

BasicVocab ==
  { << Long(nInd), <<"5">> >>, << LongEq(nInd, <<"7">>) >>, << <<"6">> >>,
    << Long(nEntity) >>, << LongEq(nId, <<"1">>) >>, << Long(nId), <<"2">> >>,
    << Long(nToggle) >> }

InitBasic == InitWith("BasicFlagGroup", BasicVocab)

SpecBasic == InitBasic /\ [][Next]_vars

\* the flag a group declares under the long name
Member(g, name) ==
  g.fields[CHOOSE i \in 1..Len(g.fields) : g.fields[i].name = name]

(***************************************************************************)
(* What a command line says, read off the arguments alone.                 *)
(***************************************************************************)
\* the argument is --name=value
IsAttached(a, name) ==
  /\ Len(a) > Len(name) + 2
  /\ SubSeq(a, 1, Len(name) + 3) = LongEq(name, << >>)

AttachedValue(a, name) == SubSeq(a, Len(name) + 4, Len(a))

IsBare(a) == a = << >> \/ a[1] # Dash

\* the number a decimal value of the vocabularies denotes
RECURSIVE Decimal(_)
Decimal(v) ==
  IF v = << >> THEN 0
  ELSE 10 * Decimal(SubSeq(v, 1, Len(v) - 1)) + DigitVal(v[Len(v)])

\* the places of the argument a in args, in order, from place i on
RECURSIVE PlacesOf(_, _, _)
PlacesOf(args, a, i) ==
  IF i > Len(args) THEN << >>
  ELSE (IF args[i] = a THEN << i >> ELSE << >>) \o PlacesOf(args, a, i + 1)

\* the id that the arguments after place i give the entity named at place i:
\* --id=v or --id v right after it, or none
IdAfter(args, i) ==
  IF i + 1 <= Len(args) /\ IsAttached(args[i + 1], nId)
    THEN [present |-> TRUE, value |-> Decimal(AttachedValue(args[i + 1], nId))]
  ELSE IF i + 2 <= Len(args) /\ args[i + 1] = Long(nId)
    THEN [present |-> TRUE, value |-> Decimal(args[i + 2])]
  ELSE [present |-> FALSE, value |-> 0]

\* the values given to ind, in order: --ind v, --ind=v and each bare value
\* that is not the value of --id
RECURSIVE IndValues(_, _)
IndValues(args, i) ==
  IF i > Len(args) THEN << >>
  ELSE IF args[i] = Long(nInd)
    THEN IF i + 1 <= Len(args)
           THEN << Decimal(args[i + 1]) >> \o IndValues(args, i + 2)
           ELSE << >>
  ELSE IF IsAttached(args[i], nInd)
    THEN << Decimal(AttachedValue(args[i], nInd)) >> \o IndValues(args, i + 1)
  ELSE IF args[i] = Long(nId) THEN IndValues(args, i + 2)
  ELSE IF IsBare(args[i]) THEN << Decimal(args[i]) >> \o IndValues(args, i + 1)
  ELSE IndValues(args, i + 1)

\* how many members of the sequence equal x
Count(seq, x) == Cardinality({i \in 1..Len(seq) : seq[i] = x})

\* the argument names the entity's flag id, with or without a value attached
NamesId(a) == a = Long(nId) \/ IsAttached(a, nId)

\* no entry is given its id twice: --entity stands between any two ids
IdOncePerEntry(args) ==
  \A i, j \in 2..Len(args) :
    (i < j /\ NamesId(args[i]) /\ NamesId(args[j])) =>
      \E k \in i..j : args[k] = Long(nEntity)

\* the entries of entity are those of the occurrences of --entity, in order,
\* each with the id given after its occurrence, and --ind=7 went to the root
EntriesFollowOccurrences ==
  LET items  == Member(flags, nEntity).items
      places == PlacesOf(argv, Long(nEntity), 2)
  IN  /\ Len(items) = Len(places)
      /\ \A k \in 1..Len(items) :
           /\ Member(items[k], nId).present = IdAfter(argv, places[k]).present
           /\ Member(items[k], nId).value = IdAfter(argv, places[k]).value
      /\ Count(Member(flags, nInd).items, 7) = Count(argv, LongEq(nInd, <<"7">>))

(***************************************************************************)
(* C2, as stated.  Every occurrence of --entity appends exactly one entry, *)
(* in input order, and an id is stored in the entry of the --entity it     *)
(* follows; a flag of the root alone that follows an entry's fields        *)
(* (--ind=7) is consumed by the root's ind.  Stated of the parses that     *)
(* succeed.  It fails on --entity --id=1 --id=1: the second id finds the   *)
(* entry's id at capacity and the vector re-enters with a second entry.    *)
(***************************************************************************)
C2_EveryIdInItsOccurrencesEntry ==
  (pc = "done" /\ result) => EntriesFollowOccurrences

(***************************************************************************)
(* C2, amended.  When no entry is given the same child flag twice, every   *)
(* occurrence of --entity appends exactly one entry, in input order, an id *)
(* is stored in the entry of the --entity it follows, and --ind=7 after an *)
(* entry's fields is consumed by the root's ind.                           *)
(***************************************************************************)
C2_OneEntryPerOccurrence ==
  (pc = "done" /\ result /\ IdOncePerEntry(argv)) => EntriesFollowOccurrences

\* two entities, each with its own id, in input order
C2_Witness ==
  /\ pc = "done"
  /\ result
  /\ Len(Member(flags, nEntity).items) = 2
  /\ Member(Member(flags, nEntity).items[1], nId).value = 1
  /\ Member(Member(flags, nEntity).items[2], nId).value = 2

(***************************************************************************)
(* C3.  After a successful parse the unconstrained vector ind holds all    *)
(* the values given to it in input order, however the occurrences are      *)
(* written: juxtaposed, re-mentioned, attached, or with other flags of     *)
(* the group between them.                                                 *)
(***************************************************************************)
C3_VectorKeepsInputOrder ==
  (pc = "done" /\ result) => Member(flags, nInd).items = IndValues(argv, 2)

\* --ind=7 6 --toggle --ind 5
C3_Witness ==
  /\ pc = "done"
  /\ result
  /\ Member(flags, nInd).items = <<7, 6, 5>>
  /\ Member(flags, nToggle).present

(***************************************************************************)
(* C4.  Writing an occurrence of a value-taking flag (the singleton id,    *)
(* the vector ind) as --name=value or as --name value gives the same       *)
(* result of parseArgs and the same flag tree.                             *)
(***************************************************************************)
\* args with --name=value at place i written as two arguments
Split(args, i, name) ==
  SubSeq(args, 1, i - 1) \o << Long(name), AttachedValue(args[i], name) >>
    \o SubSeq(args, i + 1, Len(args))

\* args with --name value at places i, i + 1 written as one argument
Join(args, i, name) ==
  SubSeq(args, 1, i - 1) \o << LongEq(name, args[i + 1]) >>
    \o SubSeq(args, i + 2, Len(args))

\* parseArgs on a fresh tree with the arguments ends as this one did
SameOutcome(args) ==
  LET r == Run(Fresh(flags.type, args))
  IN  /\ r.pc = "done"
      /\ r.result = result
      /\ r.flags = flags

C4_AttachedEqualsSeparate ==
  pc = "done" =>
    \A name \in {nId, nInd} : \A i \in 2..Len(argv) :
      /\ IsAttached(argv[i], name) => SameOutcome(Split(argv, i, name))
      /\ (argv[i] = Long(name) /\ i < Len(argv)) => SameOutcome(Join(argv, i, name))

\* a successful parse with an attached id and an attached ind value
C4_Witness ==
  /\ pc = "done"
  /\ result
  /\ \E i \in 2..Len(argv) : IsAttached(argv[i], nId)
  /\ \E i \in 2..Len(argv) : IsAttached(argv[i], nInd)
  /\ Member(flags, nInd).items # << >>


(***************************************************************************)
(* Test2::MyFlagGroup with the forms of SequentialFlagsCannotBeReentered's *)
(* command line: --lists, runs of --weights, --param between them, and a   *)
(* switch of the root.                                                     *)
(***************************************************************************)
MaxListPhrases == 5

nLists == <<"l","i","s","t","s">>

nWeights == <<"w","e","i","g","h","t","s">>

nParam == <<"p","a","r","a","m">>

nSw == <<"s","w">>

ListsVocab ==
  { << Long(nLists) >>, << Long(nWeights), <<"1">> >>, << <<"2">> >>,
    << LongEq(nParam, <<"3">>) >>, << Long(nSw) >> }

InitLists == InitLines("ModesFlagGroup", ListsVocab, MaxListPhrases)

SpecLists == InitLists /\ [][Next]_vars

\* the bare values from place i on, up to the next argument that is not bare
RECURSIVE BareRun(_, _)
BareRun(args, i) ==
  IF i > Len(args) \/ ~IsBare(args[i]) THEN << >>
  ELSE << Decimal(args[i]) >> \o BareRun(args, i + 1)

\* the runs that follow the occurrences of --name, in order
RECURSIVE Runs(_, _, _)
Runs(args, name, i) ==
  IF i > Len(args) THEN << >>
  ELSE (IF args[i] = Long(name) THEN << BareRun(args, i + 1) >> ELSE << >>)
         \o Runs(args, name, i + 1)

\* the entry holds a run of weights
HasWeights(entry) == Member(entry, nWeights).entered

\* the weights of the entries of lists that hold a run, in order
WeightsOfEntries ==
  LET held == SelectSeq(Member(flags, nLists).items, HasWeights)
  IN  [k \in 1..Len(held) |-> Member(held[k], nWeights).items]

\* the occurrences of --lists that no run of --weights follows directly
BareLists(args) ==
  {i \in 2..Len(args) :
     args[i] = Long(nLists) /\ (i = Len(args) \/ args[i + 1] # Long(nWeights))}

\* a command line of --lists and complete runs of --weights alone
OnlyWeightsRuns(args) ==
  /\ Len(args) >= 2
  /\ args[2] = Long(nLists)
  /\ \A i \in 3..Len(args) :
       \/ args[i] = Long(nLists)
       \/ args[i] = Long(nWeights) /\ i < Len(args) /\ IsBare(args[i + 1])
       \/ IsBare(args[i]) /\ (IsBare(args[i - 1]) \/ args[i - 1] = Long(nWeights))

nSeq == <<"s","e","q">>

nRep == <<"r","e","p">>

RootVocab ==
  { << Long(nSeq), <<"1">> >>, << Long(nRep), <<"1">> >>,
    << LongEq(nRep, <<"3">>) >>, << <<"2">> >>, << Long(nSw) >>,
    << Long(nLists) >> }

InitRoot == InitWith("ModesFlagGroup", RootVocab)

SpecRoot == InitRoot /\ [][Next]_vars

(***************************************************************************)
(* C6.  A Sequential declared at the root is not entered a second time:    *)
(* once its first run is stored, a second --seq is not consumed, parseArgs *)
(* returns false, and the flag holds the values of the first run only.     *)
(***************************************************************************)
C6_SequentialNotReentered ==
  (pc = "done" /\ Member(flags, nSeq).entered /\ Count(argv, Long(nSeq)) >= 2) =>
    LET places == PlacesOf(argv, Long(nSeq), 2)
    IN  /\ ~result
        /\ Member(flags, nSeq).items = BareRun(argv, places[1] + 1)
        /\ rd.position < places[2]

\* --seq 1 2 --seq 1
C6_Witness ==
  /\ pc = "done"
  /\ ~result
  /\ Count(argv, Long(nSeq)) = 2
  /\ Member(flags, nSeq).items = <<1, 2>>
  /\ rd.position = 4
  /\ getLongFlag(rd) = nSeq

(***************************************************************************)
(* C7.  A Repeated flag takes exactly one value per occurrence and may     *)
(* occur any number of times: a successful parse stores one value per      *)
(* occurrence, in order, and a command line of occurrences alone           *)
(* succeeds.  A bare value juxtaposed to an occurrence is never stored in  *)
(* the flag; at the root it is left over and parseArgs returns false.      *)
(***************************************************************************)
\* the argument names rep, with or without a value attached
NamesRep(a) == a = Long(nRep) \/ IsAttached(a, nRep)

\* the value of each occurrence of --rep, in order
RECURSIVE RepValues(_, _)
RepValues(args, i) ==
  IF i > Len(args) THEN << >>
  ELSE IF IsAttached(args[i], nRep)
    THEN << Decimal(AttachedValue(args[i], nRep)) >> \o RepValues(args, i + 1)
  ELSE IF args[i] = Long(nRep) /\ i < Len(args)
    THEN << Decimal(args[i + 1]) >> \o RepValues(args, i + 2)
  ELSE RepValues(args, i + 1)

\* a bare value stands right after an occurrence of --rep and its value
JuxtaposedToRep(args) ==
  \E i \in 3..Len(args) :
    /\ IsBare(args[i])
    /\ \/ IsAttached(args[i - 1], nRep)
       \/ i >= 4 /\ args[i - 2] = Long(nRep) /\ IsBare(args[i - 1])

\* every argument is an occurrence of --rep or the value of one
OnlyRep(args) ==
  \A i \in 2..Len(args) :
    \/ IsAttached(args[i], nRep)
    \/ args[i] = Long(nRep) /\ i < Len(args) /\ IsBare(args[i + 1])
    \/ IsBare(args[i]) /\ i >= 3 /\ args[i - 1] = Long(nRep)

C7_RepeatedOneValuePerOccurrence ==
  pc = "done" =>
    /\ (OnlyRep(argv) /\ Len(argv) >= 2) => result
    /\ result => Member(flags, nRep).items = RepValues(argv, 2)
    /\ Len(Member(flags, nRep).items) <= Len(RepValues(argv, 2))
    /\ Count(Member(flags, nRep).items, 2) = 0
    /\ JuxtaposedToRep(argv) => ~result

\* --rep 1 --rep=3 2: two occurrences stored, the juxtaposed 2 left over
C7_Witness ==
  /\ pc = "done"
  /\ ~result
  /\ JuxtaposedToRep(argv)
  /\ Member(flags, nRep).items = <<1, 3>>
  /\ rd.value = <<"2">>


(***************************************************************************)
(* Stacked short flags, on the README's example (SpecExample).             *)
(***************************************************************************)
nDisplay == <<"d","i","s","p","l","a","y">>

\* the flag a group declares under the short name
MemberChar(g, ch) ==
  g.fields[CHOOSE i \in 1..Len(g.fields) : g.fields[i].shortname = ch]

\* the entries of display
Files == Member(flags, nDisplay).items

\* the argument is a cluster of two or more of the short names
IsCluster(a, names) ==
  /\ Len(a) >= 3
  /\ a[1] = Dash
  /\ \A k \in 2..Len(a) : a[k] \in names

\* the argument is one or more of the short names
IsShortOf(a, names) ==
  /\ Len(a) >= 2
  /\ a[1] = Dash
  /\ \A k \in 2..Len(a) : a[k] \in names

\* args with the cluster at place i written as one argument per short flag
Unstack(args, i) ==
  SubSeq(args, 1, i - 1)
    \o [k \in 1..(Len(args[i]) - 1) |-> Short(<< args[i][k + 1] >>)]
    \o SubSeq(args, i + 1, Len(args))

(***************************************************************************)
(* C8.  Short flags none of which takes a value (the switch p, and the     *)
(* vector of groups display entered as D) give the same result of          *)
(* parseArgs and the same flag tree stacked in one argument as passed as   *)
(* separate arguments.  Stated of command lines made of such flags alone.  *)
(***************************************************************************)
C8_StackedEqualsSeparate ==
  (pc = "done" /\ \A j \in 2..Len(argv) : IsShortOf(argv[j], {"D", "p"})) =>
    \A i \in 2..Len(argv) :
      IsCluster(argv[i], {"D", "p"}) => SameOutcome(Unstack(argv, i))

(***************************************************************************)
(* C9.  A value-taking short flag that is not the last of its cluster does *)
(* not receive the argument that follows: when b is named only inside -bp  *)
(* and 10 follows a -bp, no entry's bookmark holds 10.                     *)
(***************************************************************************)
C9_MidClusterFlagGetsNoValue ==
  ( /\ pc = "done"
    /\ Count(argv, Short(<<"b">>)) = 0
    /\ \E i \in 2..(Len(argv) - 1) :
         argv[i] = Short(<<"b","p">>) /\ argv[i + 1] = <<"1","0">> ) =>
    \A k \in 1..Len(Files) : Count(MemberChar(Files[k], "b").items, 10) = 0

(***************************************************************************)
(* C10.  The cluster -bp with no following values is valid: on a command   *)
(* line of -D arguments that ends with -D -bp the parse returns, with      *)
(* success, and leaves the last entry with an empty bookmark and p         *)
(* present.                                                                *)
(***************************************************************************)
C10_ClusterWithNoValuesIsValid ==
  ( /\ pc \in {"done", "crashed"}
    /\ Len(argv) >= 3
    /\ argv[Len(argv)] = Short(<<"b","p">>)
    /\ \A j \in 2..(Len(argv) - 1) : argv[j] = Short(<<"D">>) ) =>
    /\ pc = "done"
    /\ result
    /\ Files # << >>
    /\ MemberChar(Files[Len(Files)], "b").items = << >>
    /\ MemberChar(Files[Len(Files)], "p").present


(***************************************************************************)
(* BasicTest::MyFlagGroup with well and ill formed occurrences: --param    *)
(* without and with an attached value, arguments that start with '-' in    *)
(* the place of a value, a bare value, the switch with and without an      *)
(* attached value, and the two vectors.                                    *)
(***************************************************************************)
ValuesVocab ==
  { << Long(nParam) >>, << <<"-","5">> >>, << LongEq(nParam, <<"3">>) >>,
    << Long(nToggle) >>, << LongEq(nToggle, <<"x">>) >>, << <<"4">> >>,
    << LongEq(nInd, <<"7">>) >>, << Long(nEntity) >> }

InitValues == InitWith("BasicFlagGroup", ValuesVocab)

SpecValues == InitValues /\ [][Next]_vars

\* the argument starts with '-'
StartsWithDash(a) == a # << >> /\ a[1] = Dash

(***************************************************************************)
(* C11, as stated.  A value-taking flag without an attached value does not *)
(* consume a next argument that starts with '-': when every --param is     *)
(* followed by such an argument and no --param=3 is given, param receives  *)
(* no value.                                                               *)
(***************************************************************************)
C11_DashArgumentNotConsumed ==
  ( /\ pc = "done"
    /\ Count(argv, LongEq(nParam, <<"3">>)) = 0
    /\ \A i \in 2..Len(argv) :
         argv[i] = Long(nParam) => (i < Len(argv) /\ StartsWithDash(argv[i + 1])) ) =>
    ~Member(flags, nParam).present

(***************************************************************************)
(* C11, amended.  A value-taking flag without an attached value takes the  *)
(* next raw argument as its value, whatever it starts with: after          *)
(* --param, -5 is stored as -5, a bare 4 as 4, and an argument that is not *)
(* a number (--toggle, --param=3 ..) is consumed as the value too, so the  *)
(* parse fails with param unset and that argument is not read as a flag.   *)
(***************************************************************************)
C11_NextRawArgumentIsTheValue ==
  (pc = "done" /\ Len(argv) >= 3 /\ argv[2] = Long(nParam)) =>
    LET raw == argv[3]
        param == Member(flags, nParam)
    IN  /\ raw = <<"-","5">> => (param.present /\ param.value = -5)
        /\ raw = <<"4">> => (param.present /\ param.value = 4)
        /\ raw \notin { <<"-","5">>, <<"4">> } =>
             /\ ~result
             /\ ~param.present
             /\ rd.position = 2
             /\ ~Member(flags, nToggle).present

\* --param -5 parsed, with success
C11_Witness ==
  /\ pc = "done"
  /\ result
  /\ Len(argv) >= 3
  /\ argv[2] = Long(nParam)
  /\ argv[3] = <<"-","5">>
  /\ Member(flags, nParam).value = -5


(***************************************************************************)
(* C12.  A singleton receives at most one value per instance.  When param  *)
(* is named twice at the root and its first occurrence set it, the second  *)
(* occurrence is not dispatched: parseArgs returns false, the reader has   *)
(* not passed the second occurrence, param keeps the first value, and      *)
(* when the reader stands at the second occurrence it is reported as the   *)
(* unexpected flag.                                                        *)
(***************************************************************************)
\* the argument names param, with or without a value attached
NamesParam(a) == a = Long(nParam) \/ IsAttached(a, nParam)

\* the places where param is named as a flag (not taken as --param's value)
RECURSIVE ParamTokens(_, _)
ParamTokens(args, i) ==
  IF i > Len(args) THEN << >>
  ELSE IF args[i] = Long(nParam) THEN << i >> \o ParamTokens(args, i + 2)
  ELSE IF IsAttached(args[i], nParam) THEN << i >> \o ParamTokens(args, i + 1)
  ELSE ParamTokens(args, i + 1)

\* the value the occurrence at place i gives
ParamValueAt(args, i) ==
  LET raw == IF IsAttached(args[i], nParam) THEN AttachedValue(args[i], nParam)
             ELSE args[i + 1]
  IN  IF StartsWithDash(raw) THEN 0 - Decimal(Tail(raw)) ELSE Decimal(raw)

C12_SingletonSetOnce ==
  ( /\ pc = "done"
    /\ Len(ParamTokens(argv, 2)) >= 2
    /\ Member(flags, nParam).present ) =>
    LET tokens == ParamTokens(argv, 2)
    IN  /\ ~result
        /\ Member(flags, nParam).value = ParamValueAt(argv, tokens[1])
        /\ rd.position < tokens[2]
        /\ rd.position = tokens[2] - 1 =>
             /\ getLongFlag(rd) = nParam
             /\ err = << "Unexpected flag (long)" >>

\* --param -5 --param=3: param is -5 and the reader stands at --param=3
C12_Witness ==
  /\ pc = "done"
  /\ ~result
  /\ Member(flags, nParam).value = -5
  /\ Len(ParamTokens(argv, 2)) = 2
  /\ rd.position = ParamTokens(argv, 2)[2] - 1
  /\ getValue(rd) = <<"3">>

(***************************************************************************)
(* C13.  A Switch given an attached value is an arity violation: a command *)
(* line with --toggle=x never succeeds and never sets toggle; when it is   *)
(* the first argument the failure is the switch's own (its diagnostic, the *)
(* reader still on that argument).  A Switch named without a value sets    *)
(* present and consumes that one argument only: a bare value after it is   *)
(* left for the root, which rejects it.                                    *)
(***************************************************************************)
C13_SwitchTakesNoValue ==
  pc = "done" =>
    /\ Count(argv, LongEq(nToggle, <<"x">>)) > 0 => ~result
    /\ Count(argv, Long(nToggle)) = 0 => ~Member(flags, nToggle).present
    /\ (Len(argv) >= 2 /\ argv[2] = LongEq(nToggle, <<"x">>)) =>
         /\ rd.position = 1
         /\ ~ret.ok
         /\ err = << "is a switch and cannot accept a value" >>
    /\ (Len(argv) >= 2 /\ argv[2] = Long(nToggle)) =>
         /\ Member(flags, nToggle).present
         /\ rd.position >= 2
         /\ Len(argv) = 2 => result
         /\ (Len(argv) >= 3 /\ argv[3] = <<"4">>) =>
              /\ ~result
              /\ rd.position = 2
              /\ err = << "Expected flag name, but got" >>

\* --ind=7 --toggle=x: the switch refuses, ind keeps its 7
C13_Witness ==
  /\ pc = "done"
  /\ ~result
  /\ Len(argv) = 3
  /\ argv[3] = LongEq(nToggle, <<"x">>)
  /\ rd.position = 2
  /\ ~Member(flags, nToggle).present
  /\ Member(flags, nInd).items = <<7>>
  /\ err = << "is a switch and cannot accept a value" >>

(***************************************************************************)
(* C16.  When the first argument after the program name is a bare value,   *)
(* parseArgs on the root group returns false with the diagnostic           *)
(* 'Expected flag name, got' and every flag of the tree is left as         *)
(* constructed.                                                            *)
(***************************************************************************)
C16_StrayFirstArgumentFails ==
  (pc = "done" /\ Len(argv) >= 2 /\ IsBare(argv[2])) =>
    /\ ~result
    /\ err = << "Expected flag name, got" >>
    /\ flags = Construct(flags.type, << >>, NUL)
    /\ rd.position = 1

\* a bare 4 first, with more arguments after it
C16_Witness ==
  /\ pc = "done"
  /\ ~result
  /\ Len(argv) >= 3
  /\ argv[2] = <<"4">>
  /\ argv[3] = Long(nToggle)
  /\ ~Member(flags, nToggle).present

(***************************************************************************)
(* C18.  A parse changes only the flags that are named: after any parse, a *)
(* flag of the root whose name occurs in no argument is as constructed     *)
(* (not present, default value, no items).                                 *)
(***************************************************************************)
\* the long name occurs in an argument, alone or with an attached value
Occurs(args, name) ==
  \E i \in 2..Len(args) : args[i] = Long(name) \/ IsAttached(args[i], name)

C18_UnnamedFlagsUntouched ==
  pc = "done" =>
    \A i \in 1..Len(flags.fields) :
      ~Occurs(argv, flags.fields[i].name) =>
        flags.fields[i] = Construct(flags.type, << >>, NUL).fields[i]

\* --toggle and --ind=7 given and stored, param never named and unset
C18_Witness ==
  /\ pc = "done"
  /\ result
  /\ Member(flags, nToggle).present
  /\ Member(flags, nInd).items # << >>
  /\ ~Occurs(argv, nParam)
  /\ ~Member(flags, nParam).present


(***************************************************************************)
(* BasicTest::MyFlagGroup with values that do not convert: an entity with  *)
(* a name and a well or ill formed id, ind with a well or ill formed       *)
(* value, and a switch.                                                    *)
(***************************************************************************)
nName == <<"n","a","m","e">>

MalformedVocab ==
  { << Long(nEntity) >>, << LongEq(nName, <<"a">>) >>, << LongEq(nId, <<"x">>) >>,
    << LongEq(nId, <<"1">>) >>, << LongEq(nInd, <<"7">>) >>,
    << LongEq(nInd, <<"x">>) >>, << Long(nToggle) >> }

InitMalformed == InitWith("BasicFlagGroup", MalformedVocab)

SpecMalformed == InitMalformed /\ [][Next]_vars

(***************************************************************************)
(* C14.  There is no rollback on failure: when parseArgs returns false,    *)
(* what was assigned before the failing argument is still in the tree: a   *)
(* leading --toggle, a leading --ind=7 in the vector of scalars, and the   *)
(* name of a leading --entity --name=a, which is a value assigned inside   *)
(* the occurrence of the vector of groups that may be the one being parsed *)
(* at the failure.                                                         *)
(***************************************************************************)
C14_NoRollbackOnFailure ==
  (pc = "done" /\ ~result /\ Len(argv) >= 3) =>
    /\ argv[2] = Long(nToggle) => Member(flags, nToggle).present
    /\ argv[2] = LongEq(nInd, <<"7">>) =>
         /\ Member(flags, nInd).items # << >>
         /\ Member(flags, nInd).items[1] = 7
    /\ (argv[2] = Long(nEntity) /\ argv[3] = LongEq(nName, <<"a">>)) =>
         /\ Member(flags, nEntity).items # << >>
         /\ Member(Member(flags, nEntity).items[1], nName).present
         /\ Member(Member(flags, nEntity).items[1], nName).value = <<"a">>

(***************************************************************************)
(* C15.  Every parseArgs that returns false has written at least one       *)
(* diagnostic to the error stream before it returns.                       *)
(***************************************************************************)
C15_FailureWritesDiagnostic ==
  (pc = "done" /\ ~result) => err # << >>


(***************************************************************************)
(* parseArgs called with any argument count: the count of the array, or a  *)
(* count below 2 (1, 0, negative) whatever the array holds.                *)
(***************************************************************************)
ArgcVocab ==
  { << Long(nInd), <<"5">> >>, << <<"6">> >>, << Long(nEntity) >>,
    << LongEq(nId, <<"1">>) >>, << Long(nToggle) >> }

InitArgc ==
  /\ argv \in { <<Prog>> \o l : l \in Lines(ArgcVocab, MaxPhrases) }
  /\ argc \in {-1, 0, 1, Len(argv)}
  /\ flags = Construct("BasicFlagGroup", << >>, NUL)
  /\ rd = NewArgReader(0)
  /\ stack = << >>
  /\ ret = NoRet
  /\ pc = "start"
  /\ result = FALSE
  /\ err = << >>
  /\ printer = BasicHelpPrinter
  /\ helps = << >>

SpecArgc == InitArgc /\ [][Next]_vars

(***************************************************************************)
(* C17.  With an argument count below 2 parseArgs returns true, makes no   *)
(* reader (so no element of argv is read), writes no diagnostic and leaves *)
(* the whole flag tree as it was; a reader's count is never negative; and  *)
(* for any count the reader is never positioned on argv[0]: once parseArgs *)
(* has made a reader its position is at least 1.                           *)
(***************************************************************************)
C17_NothingBelowTwoArguments ==
  /\ (pc = "done" /\ argc < 2) =>
       /\ result
       /\ flags = Construct(flags.type, << >>, NUL)
       /\ rd = NewArgReader(0)
       /\ err = << >>
  /\ NewArgReader(argc).argc >= 0
  /\ (pc # "start" /\ argc >= 2) => rd.position >= 1

\* a negative count with arguments in the array: returned true, none read
C17_Witness ==
  /\ pc = "done"
  /\ argc = -1
  /\ Len(argv) >= 3
  /\ result
  /\ rd.position = 0
  /\ ~Member(flags, nToggle).present


(***************************************************************************)
(* The bool flag alive given one value, attached or separate: the eight    *)
(* names in every mix of cases, all short strings over a few characters,   *)
(* the empty string and some near misses.  Only the root group and the     *)
(* singleton take steps on these command lines.                            *)
(***************************************************************************)
MaxBoolLen == 2

nAlive == <<"a","l","i","v","e">>

TrueNames == { <<"1">>, <<"o","n">>, <<"y","e","s">>, <<"t","r","u","e">> }

FalseNames == { <<"0">>, <<"n","o">>, <<"o","f","f">>, <<"f","a","l","s","e">> }

\* the upper case of the letters of the names; other characters have none
UpperOf(c) ==
  CASE c = "o" -> "O" [] c = "n" -> "N" [] c = "y" -> "Y" [] c = "e" -> "E"
    [] c = "s" -> "S" [] c = "t" -> "T" [] c = "r" -> "R" [] c = "u" -> "U"
    [] c = "f" -> "F" [] c = "a" -> "A" [] c = "l" -> "L" [] OTHER -> c

\* the string is the name in some mix of upper and lower case
IsVariant(w, name) ==
  /\ Len(w) = Len(name)
  /\ \A i \in 1..Len(name) : w[i] \in {name[i], UpperOf(name[i])}

\* the first n characters of the name in every mix of upper and lower case
RECURSIVE VariantsUpTo(_, _)
VariantsUpTo(name, n) ==
  IF n = 0 THEN { << >> }
  ELSE { Append(w, c) : w \in VariantsUpTo(name, n - 1),
                        c \in {name[n], UpperOf(name[n])} }

CaseVariants(name) == VariantsUpTo(name, Len(name))

\* the strings of at most n of the characters
RECURSIVE StringsUpTo(_, _)
StringsUpTo(chars, n) ==
  IF n = 0 THEN { << >> }
  ELSE LET shorter == StringsUpTo(chars, n - 1)
       IN  shorter \cup { Append(w, c) : w \in shorter, c \in chars }

BoolInputs ==
  UNION { CaseVariants(name) : name \in TrueNames \cup FalseNames }
    \cup StringsUpTo({"o", "n", "N", "0", "1", "y", " "}, MaxBoolLen)
    \cup { <<"t","r","u">>, <<"t","r","u","e","e">>, <<"f","a","l","s">>,
           <<"y","e","s","s">>, <<"2">>, <<"1","0">>, <<"o","n"," ">> }

InitBool ==
  /\ argv \in { <<Prog, LongEq(nAlive, v)>> : v \in BoolInputs }
                \cup { <<Prog, Long(nAlive), v>> : v \in BoolInputs }
  /\ argc = Len(argv)
  /\ flags = Construct("BasicFlagGroup", << >>, NUL)
  /\ rd = NewArgReader(0)
  /\ stack = << >>
  /\ ret = NoRet
  /\ pc = "start"
  /\ result = FALSE
  /\ err = << >>
  /\ printer = BasicHelpPrinter
  /\ helps = << >>

NextBool ==
  \/ ParseArgs
  \/ ParseArgsReturn
  \/ Singleton
  \/ GroupEnter
  \/ GroupLoop
  \/ GroupParsed

SpecBool == InitBool /\ [][NextBool]_vars

\* the string given to alive
BoolInput == IF Len(argv) = 2 THEN AttachedValue(argv[2], nAlive) ELSE argv[3]

(***************************************************************************)
(* C20.  Boolean conversion, for every input string: 1, on, yes, true in   *)
(* any mix of cases convert to true, 0, no, off, false in any mix of cases *)
(* convert to false, and every other string, the empty one included, is an *)
(* error: the parse fails and the bool flag is left unset.                 *)
(***************************************************************************)
C20_BoolConversion ==
  pc = "done" =>
    LET alive == Member(flags, nAlive)
        true  == \E name \in TrueNames : IsVariant(BoolInput, name)
        false == \E name \in FalseNames : IsVariant(BoolInput, name)
    IN  /\ true  => (result /\ alive.present /\ alive.value = TRUE)
        /\ false => (result /\ alive.present /\ alive.value = FALSE)
        /\ ~(true \/ false) => (~result /\ ~alive.present /\ alive.value = FALSE)

\* --alive=YeS gives true
C20_Witness ==
  /\ pc = "done"
  /\ result
  /\ BoolInput = <<"Y","e","S">>
  /\ Len(argv) = 2
  /\ Member(flags, nAlive).value = TRUE

(***************************************************************************)
(* Help of the README's example.  Example.cpp prints the help of AllFlags  *)
(* before it parses; here the help is printed before or after the parse,   *)
(* at most MaxHelps times, through either printHelp.                       *)
(***************************************************************************)
MaxHelpPhrases == 3

MaxHelps == 2

nFile == <<"f","i","l","e">>

nBookmark == <<"b","o","o","k","m","a","r","k">>

HelpVocab ==
  { << Long(nDisplay) >>, << LongEq(nFile, <<"a">>) >>,
    << LongEq(nBookmark, <<"1","0">>) >>, << Short(<<"p">>) >> }

InitHelp == InitLines("AllFlags", HelpVocab, MaxHelpPhrases)

\* what one printHelp call wrote and which calls the printer received
Help(entry, before, after) ==
  [entry  |-> entry,
   tree   |-> flags,
   stream |-> SubSeq(after.stream, Len(before.stream) + 1, Len(after.stream)),
   calls  |-> SubSeq(after.calls, Len(before.calls) + 1, Len(after.calls))]

\* flags.printHelp(stream)
PrintHelpStream ==
  /\ pc \in {"start", "done"}
  /\ Len(helps) < MaxHelps
  /\ helps' = Append(helps, Help("ostream", BasicHelpPrinter, printHelpStream(flags)))
  /\ UNCHANGED <<argc, argv, flags, rd, stack, ret, pc, result, err, printer>>

\* flags.printHelp(printer), printer the caller's BasicHelpPrinter
PrintHelpPrinter ==
  /\ pc \in {"start", "done"}
  /\ Len(helps) < MaxHelps
  /\ printer' = printHelp(flags, printer)
  /\ helps' = Append(helps, Help("printer", printer, printer'))
  /\ UNCHANGED <<argc, argv, flags, rd, stack, ret, pc, result, err>>

NextHelp ==
  \/ Next
  \/ PrintHelpStream
  \/ PrintHelpPrinter

SpecHelp == InitHelp /\ [][NextHelp]_vars

(***************************************************************************)
(* C19.  Help rendering is idempotent: two printHelp calls through the     *)
(* same entry point, printHelp(ostream) or printHelp(HelpPrinter&) with a  *)
(* BasicHelpPrinter, on the same flag tree write the same characters, the  *)
(* indentation of every line included, through the same sequence of        *)
(* enterFlag, writeBlock and leaveFlag calls.                              *)
(***************************************************************************)
C19_HelpRenderingIdempotent ==
  \A i, j \in 1..Len(helps) :
    (helps[i].entry = helps[j].entry /\ helps[i].tree = helps[j].tree) =>
      /\ helps[i].stream = helps[j].stream
      /\ helps[i].calls = helps[j].calls

(***************************************************************************)
(* The ArgReader alone: over an argv of the program name and at most       *)
(* MaxReaderArgs arguments, any sequence of parseNextArg calls and of the  *)
(* nextRawArgument calls SingletonFlag::parseArgsR makes (the token is a   *)
(* flag without a value and hasMoreArguments holds).  pc is the last call: *)
(* "arg", "queued" or "end" for the return parseNextArg took, "raw" for    *)
(* nextRawArgument.                                                        *)
(***************************************************************************)
MaxReaderArgs == 3

ReaderArgs ==
  { << >>, <<"-">>, <<"-", "-">>, <<"a", "=", "b">>, <<"-", "-", "a">>,
    <<"-", "-", "a", "=", "b", "=", "c">>, <<"-", "-", "=", "b">>,
    <<"-", "a">>, <<"-", "a", "b", "c">>, <<"-", "a", "=", "b">> }

RECURSIVE Words(_, _)
Words(args, n) ==
  IF n = 0 THEN { << >> }
  ELSE LET shorter == Words(args, n - 1)
       IN  shorter \cup { Append(w, a) : w \in shorter, a \in args }

InitReader ==
  /\ argv \in { <<Prog>> \o w : w \in Words(ReaderArgs, MaxReaderArgs) }
  /\ argc = Len(argv)
  /\ rd = NewArgReader(argc)
  /\ pc = "start"
  /\ flags = NoFlag
  /\ stack = << >>
  /\ ret = NoRet
  /\ result = FALSE
  /\ err = << >>
  /\ printer = BasicHelpPrinter
  /\ helps = << >>

\* argReader.parseNextArg()
ParseNextArg ==
  /\ pc # "crashed"
  /\ \E beyond \in PastTheTerminator : rd' = parseNextArgPast(rd, argv, beyond)
  /\ pc' = BranchOf(rd)
  /\ UNCHANGED <<argc, argv, flags, stack, ret, result, err, printer, helps>>

\* argReader.nextRawArgument(), as SingletonFlag::parseArgsR calls it
NextRawArgument ==
  /\ pc \in {"arg", "queued"}
  /\ ~hasValue(rd)
  /\ hasMoreArguments(rd)
  /\ \E past \in PastTheEnd :
       IF rd.position + 1 < Len(argv)
         THEN /\ rd' = nextRawArgument(rd, argv[rd.position + 2])
              /\ pc' = "raw"
         ELSE IF past.crash
           THEN /\ rd' = rd
                /\ pc' = "crashed"
         ELSE /\ rd' = nextRawArgument(rd, past.raw)
              /\ pc' = "raw"
  /\ UNCHANGED <<argc, argv, flags, stack, ret, result, err, printer, helps>>

NextReader ==
  \/ ParseNextArg
  \/ NextRawArgument

SpecReader == InitReader /\ [][NextReader]_vars

\* the argument at the cursor
CurArg == argv[rd.position + 1]

(***************************************************************************)
(* C21.  Every argument the cursor reaches by parseNextArg is classified   *)
(* as exactly one of three kinds.  Without a leading '-' it is a bare      *)
(* value: hasValue, no flag, getValue the argument.  With a leading "--"   *)
(* it is a long flag named by the text between "--" and the first '=', or  *)
(* by the whole remainder when there is no '=', and it has a value, the    *)
(* text after the first '=', exactly when there is an '='.  With a single  *)
(* leading '-' it is a short flag, its character the one after the '-',    *)
(* and has no value.                                                       *)
(***************************************************************************)
C21_ArgumentClassified ==
  pc = "arg" =>
    LET a     == CurArg
        bare  == hasValue(rd) /\ ~hasAnyFlag(rd)
        long  == hasLongFlag(rd)
        short == hasShortFlag(rd)
        eqs   == {k \in 1..Len(a) : a[k] = "="}
    IN  /\ (bare /\ ~long /\ ~short) \/ (~bare /\ long /\ ~short)
             \/ (~bare /\ ~long /\ short)
        /\ IF a = << >> \/ a[1] # "-"
             THEN bare /\ getValue(rd) = a
           ELSE IF Len(a) >= 2 /\ a[2] = "-"
             THEN /\ long
                  /\ hasValue(rd) = (eqs # {})
                  /\ \A k \in eqs :
                       (\A j \in eqs : k <= j) =>
                         /\ getLongFlag(rd) = SubSeq(a, 3, k - 1)
                         /\ getValue(rd) = SubSeq(a, k + 1, Len(a))
                  /\ eqs = {} => getLongFlag(rd) = SubSeq(a, 3, Len(a))
           ELSE /\ short
                /\ ~hasValue(rd)
                /\ getShortFlag(rd) = (IF Len(a) >= 2 THEN a[2] ELSE NUL)

\* --a=b=c is the long flag a with the value b=c
C21_Witness ==
  /\ pc = "arg"
  /\ CurArg = <<"-", "-", "a", "=", "b", "=", "c">>
  /\ hasLongFlag(rd)
  /\ getLongFlag(rd) = <<"a">>
  /\ hasValue(rd)
  /\ getValue(rd) = <<"b", "=", "c">>

(***************************************************************************)
(* C22.  A cluster -c1c2..cn is delivered as the short flags c1, .., cn in *)
(* that order, one per parseNextArg, each without a value; tell() does not *)
(* change while queued characters remain, and the tokenizer moves to the   *)
(* next argument only on the call made when the queue is empty.  So a step *)
(* of the parse that changes the reader while characters are queued        *)
(* delivers the first of them and leaves the cursor where it is.           *)
(***************************************************************************)
C22_ClusterDeliveredInOrder ==
  [][(Len(rd.charFlags) > 0 /\ rd' # rd /\ pc' # "crashed") =>
       /\ hasShortFlag(rd')
       /\ getShortFlag(rd') = Head(rd.charFlags)
       /\ ~hasValue(rd')
       /\ rd'.charFlags = Tail(rd.charFlags)
       /\ tell(rd') = tell(rd)]_vars

(***************************************************************************)
(* C23.  Once parseNextArg is called with no argument and no queued short  *)
(* flag left, atEnd is true and stays true, and the token has no identity: *)
(* hasLongFlag, hasShortFlag, hasAnyFlag and hasValue are false, the long  *)
(* name is empty and the short character is 0.                             *)
(***************************************************************************)
C23_EndOfStreamHasNoIdentity ==
  /\ [](pc = "end" => atEnd(rd))
  /\ [][atEnd(rd) => atEnd(rd')]_vars
  /\ [](atEnd(rd) =>
          /\ ~hasLongFlag(rd)
          /\ ~hasShortFlag(rd)
          /\ ~hasAnyFlag(rd)
          /\ ~hasValue(rd)
          /\ getLongFlag(rd) = << >>
          /\ getShortFlag(rd) = NUL)

(***************************************************************************)
(* Names no flag has: BasicTest::MyFlagGroup with command lines of its     *)
(* flags, of the flags of its entity, and of the unknown --bogus and -z.   *)
(***************************************************************************)
nBogus == <<"b","o","g","u","s">>

DispatchVocab ==
  { << Long(nEntity) >>, << LongEq(nId, <<"1">>) >>, << LongEq(nName, <<"a">>) >>,
    << Long(nToggle) >>, << LongEq(nInd, <<"7">>) >>, << Long(nBogus) >>,
    << Short(<<"z">>) >> }

InitDispatch == InitWith("BasicFlagGroup", DispatchVocab)

SpecDispatch == InitDispatch /\ [][Next]_vars

\* the flags a group declares that the current token names, by its kind
NamedChildren(g, r) ==
  { i \in 1..Len(g.fields) :
      \/ hasLongFlag(r) /\ g.fields[i].name # << >>
           /\ g.fields[i].name = getLongFlag(r)
      \/ hasShortFlag(r) /\ g.fields[i].shortname # NUL
           /\ g.fields[i].shortname = getShortFlag(r) }

\* the diagnostics of an unrecognized name
Unexpected == {"Unexpected flag (long)", "Unexpected flag (short)"}

(***************************************************************************)
(* C24.  A turn of a group's loop whose token names no flag the group      *)
(* declares, or names one that is at capacity, returns true at once: the   *)
(* reader (cursor, token, queue) and the group are as before and nothing   *)
(* is written.  An unrecognized name is reported by parseArgs only, once.  *)
(***************************************************************************)
C24_UnmatchedNameReturnsToCaller ==
  /\ [][(/\ Running(Machine, "group", "loop")
         /\ ~atEnd(rd)
         /\ \A i \in NamedChildren(Top(Machine).self, rd) :
              atCapacity(Top(Machine).self.fields[i]))
        => /\ stack' = SubSeq(stack, 1, Len(stack) - 1)
           /\ ret' = [set |-> TRUE, ok |-> TRUE, self |-> Top(Machine).self]
           /\ rd' = rd
           /\ err' = err
           /\ pc' = pc]_vars
  /\ [](pc # "done" => \A i \in 1..Len(err) : err[i] \notin Unexpected)
  /\ [](Len(err) > 1 => \A i \in 1..Len(err) : err[i] \notin Unexpected)

\* --entity --bogus: the entry's group has returned true at --bogus, with
\* nothing written
C24_Witness ==
  /\ argv = <<Prog, Long(nEntity), Long(nBogus)>>
  /\ pc = "running"
  /\ Len(stack) = 3
  /\ Top(Machine).fn = "wrap"
  /\ ret.set
  /\ ret.ok
  /\ getLongFlag(rd) = nBogus
  /\ err = << >>

(***************************************************************************)
(* Short and long names: ShortFlagGroup, with each of its names given as   *)
(* a short flag and as a long flag.  The group has no Flag<T, true>.       *)
(***************************************************************************)
NamesVocab ==
  { << Short(<<"b">>) >>, << <<"1">> >>, << Short(<<"p">>) >>,
    << Long(<<"p">>) >>, << Short(<<"x">>) >>, << Long(<<"x">>) >> }

InitNames == InitWith("ShortFlagGroup", NamesVocab)

NextNames ==
  \/ ParseArgs
  \/ ParseArgsReturn
  \/ Singleton
  \/ Switch
  \/ VectorEnter
  \/ VectorParsed
  \/ VectorTail
  \/ GroupEnter
  \/ GroupLoop
  \/ GroupParsed

SpecNames == InitNames /\ [][NextNames]_vars

(***************************************************************************)
(* C25.  Long and short names are separate namespaces: a group hands a     *)
(* long flag --n only to a flag declared with the long name n and a short  *)
(* flag -c only to a flag declared with the short name c.  The switch with *)
(* the short name p alone is never set by --p, and the switch with the     *)
(* long name x alone is never set by -x.                                   *)
(***************************************************************************)
C25_NamespacesIndependent ==
  /\ [][(Running(Machine, "group", "loop") /\ Len(stack') > Len(stack)) =>
          LET child == stack'[Len(stack')].self
          IN  /\ hasLongFlag(rd) =>
                   child.name # << >> /\ child.name = getLongFlag(rd)
              /\ hasShortFlag(rd) =>
                   child.shortname # NUL /\ child.shortname = getShortFlag(rd)]_vars
  /\ [](pc = "done" =>
          /\ MemberChar(flags, "p").present =>
               \E i \in 2..Len(argv) : argv[i] = Short(<<"p">>)
          /\ Member(flags, <<"x">>).present =>
               \E i \in 2..Len(argv) : argv[i] = Long(<<"x">>))

\* --p and -x name no flag: neither switch is set and the parse fails at --p
C25_Witness ==
  /\ pc = "done"
  /\ argv = <<Prog, Long(<<"p">>), Short(<<"x">>)>>
  /\ ~result
  /\ rd.position = 1
  /\ ~MemberChar(flags, "p").present
  /\ ~Member(flags, <<"x">>).present

(***************************************************************************)
(* C26.  After a vector has appended a value it consumes again at once if  *)
(* and only if it is greedy and the next token either is a bare value or,  *)
(* for a reentrant vector, is a flag with the vector's own name; in every  *)
(* other case (not greedy, a flag with another name, the end of the        *)
(* arguments) it returns to its caller.                                    *)
(***************************************************************************)
C26_VectorConsumesAgain ==
  [][(/\ Running(Machine, "vector", "call")
      /\ ret.ok
      /\ Top(Machine).pos # tell(rd))
     => LET self == Top(Machine).self
            c    == ClassOf(self.type)
            bare == ~atEnd(rd) /\ hasValue(rd) /\ ~hasAnyFlag(rd)
            own  == /\ ~atEnd(rd)
                    /\ \/ /\ hasLongFlag(rd)
                          /\ self.name # << >>
                          /\ getLongFlag(rd) = self.name
                       \/ /\ hasShortFlag(rd)
                          /\ self.shortname # NUL
                          /\ getShortFlag(rd) = self.shortname
        IN  (Len(stack') > Len(stack))
              <=> (c.greedy /\ (bare \/ (c.reentrant /\ own)))]_vars

(***************************************************************************)
(* C27.  For every kind of node and every name, hasFlag(name) is true      *)
(* exactly when the name is the node's own long or short name or the name  *)
(* of a descendant: a named group answers true for its own name, and a     *)
(* composite looks through every level below it.  The nodes are the flags  *)
(* whose parseArgsR is running.                                            *)
(***************************************************************************)
RECURSIVE Owns(_, _)
\* the long name is the node's or a descendant's
Owns(obj, name) ==
  LET c == ClassOf(obj.type)
  IN  \/ obj.name # << >> /\ obj.name = name
      \/ c.kind = "vector" /\ Owns(Construct(c.elem, obj.name, obj.shortname), name)
      \/ \E i \in 1..Len(obj.fields) : Owns(obj.fields[i], name)

RECURSIVE OwnsChar(_, _)
\* the short name is the node's or a descendant's
OwnsChar(obj, ch) ==
  LET c == ClassOf(obj.type)
  IN  \/ obj.shortname # NUL /\ obj.shortname = ch
      \/ c.kind = "vector" /\ OwnsChar(Construct(c.elem, obj.name, obj.shortname), ch)
      \/ \E i \in 1..Len(obj.fields) : OwnsChar(obj.fields[i], ch)

C27_HasFlagOwnOrDescendant ==
  \A d \in 1..Len(stack) :
    /\ \A name \in {nEntity, nId, nInd, nToggle, <<"b", "o", "g", "u", "s">>} :
         hasFlag(stack[d].self, name) = Owns(stack[d].self, name)
    /\ \A ch \in {"e", "i", "z"} :
         hasFlagChar(stack[d].self, ch) = OwnsChar(stack[d].self, ch)

(***************************************************************************)
(* C28.  Capacity is a one-way latch during a parse.  A singleton that has *)
(* been set, a switch that has been seen and a vector that is not          *)
(* reentrant and has been entered are at capacity, and a flag at capacity  *)
(* is at capacity in every later state; a vector is at capacity exactly    *)
(* when it is entered and not reentrant, so a reentrant vector never is;   *)
(* a group is at capacity exactly when every flag it declares is.  The     *)
(* flags are those whose parseArgsR is running and the flags they declare. *)
(***************************************************************************)
C28_CapacityLatches ==
  /\ [][/\ \A d \in 1..Len(stack) :
             d <= Len(stack') =>
               /\ atCapacity(stack[d].self) => atCapacity(stack'[d].self)
               /\ \A i \in 1..Len(stack[d].self.fields) :
                    atCapacity(stack[d].self.fields[i])
                      => atCapacity(stack'[d].self.fields[i])
        /\ (stack # << >> /\ Len(stack') < Len(stack)) =>
             (atCapacity(Top(Machine).self) => atCapacity(ret'.self))
        /\ (Running(Machine, "group", "call") /\ pc' = "running") =>
             (atCapacity(ret.self) =>
                atCapacity(Deref(stack'[Len(stack)].self, Top(Machine).ref)))
        /\ (/\ \/ Running(Machine, "singleton", "entry")
               \/ Running(Machine, "switch", "entry")
            /\ ret'.set
            /\ ret'.ok) => atCapacity(ret'.self)
        /\ Running(Machine, "vector", "entry") =>
             (atCapacity(stack'[Len(stack)].self)
                = ~ClassOf(Top(Machine).self.type).reentrant)]_vars
  /\ [](\A d \in 1..Len(stack) :
          LET self == stack[d].self
              c    == ClassOf(self.type)
          IN  /\ c.kind = "vector" =>
                   /\ atCapacity(self) = (self.entered /\ ~c.reentrant)
                   /\ c.reentrant => ~atCapacity(self)
              /\ c.kind = "group" =>
                   (atCapacity(self)
                      = \A i \in 1..Len(self.fields) : atCapacity(self.fields[i])))

\* --lists --weights 1 --param=3 --sw has been parsed: param and sw are at
\* capacity, lists is not, and the entry's weights is
C28_Witness ==
  /\ pc = "done"
  /\ result
  /\ argv = <<Prog, Long(nLists), Long(nWeights), <<"1">>, LongEq(nParam, <<"3">>),
              Long(nSw)>>
  /\ atCapacity(Member(flags, nParam))
  /\ atCapacity(Member(flags, nSw))
  /\ ~atCapacity(Member(flags, nLists))
  /\ Len(Member(flags, nLists).items) = 1
  /\ atCapacity(Member(Member(flags, nLists).items[1], nWeights))

(***************************************************************************)
(* Termination.  The command lines are at most MaxTermPhrases phrases of   *)
(* ShortFlagGroup: its short and long flags, a cluster, a value and a      *)
(* value that is no number.  parseArgs runs to its return without waiting  *)
(* for anything, so a step that can be taken is taken.                     *)
(***************************************************************************)
MaxTermPhrases == 3

TermVocab ==
  { << Short(<<"b">>) >>, << <<"1">> >>, << <<"z">> >>, << Short(<<"p">>) >>,
    << Long(<<"x">>) >>, << Short(<<"b","p">>) >> }

InitTerm == InitLines("ShortFlagGroup", TermVocab, MaxTermPhrases)

SpecTerm == InitTerm /\ [][NextNames]_vars /\ WF_vars(NextNames)

\* the machine when the call on top of the frame at depth d has returned to
\* it, or the run has stopped
RECURSIVE Returned(_, _, _)
Returned(m, d, past) ==
  IF m.pc # "running" \/ Len(m.stack) <= d THEN m
  ELSE Returned(IF Top(m).fn = "singleton" THEN SingletonParseArgsR(m, past)
                ELSE Step(m), d, past)

\* the token stream is further on in b than in a: a later argument, or the
\* same argument with fewer short flags pending
Advanced(a, b) ==
  \/ tell(b) > tell(a)
  \/ tell(b) = tell(a) /\ Len(b.charFlags) < Len(a.charFlags)

\* the group whose delegation has returned in m stops and returns success:
\* by the return after the comparison of positions, or by the test of its
\* while loop
Stops(m) ==
  LET after == GroupAfterParse(m)
  IN  IF Len(after.stack) < Len(m.stack) THEN after.ret.ok ELSE atEnd(after.rd)

\* after a group delegates the token to a member, the member fails, or the
\* stream is further on, or the group stops and returns success
DelegationProgresses ==
  Running(Machine, "group", "loop") =>
    LET m1 == GroupDispatch(Machine)
    IN  Len(m1.stack) > Len(stack) =>
          \A past \in PastTheEnd :
            LET m2 == Returned(m1, Len(stack), past)
            IN  m2.pc = "running" =>
                  \/ ~m2.ret.ok
                  \/ Advanced(rd, m2.rd)
                  \/ Stops(m2)

\* a vector's parseArgsR called by the same vector's parseArgsR has its
\* element's parse behind it
Reinvoked ==
  /\ Running(Machine, "vector", "call")
  /\ ret.set
  /\ Len(stack) >= 2
  /\ stack[Len(stack) - 1].fn = "vector"
  /\ stack[Len(stack) - 1].at = "tail"

NestedVocab ==
  { << Long(nToggle) >>, << Long(nEntity) >>, << LongEq(nId, <<"1">>) >>,
    << Long(nInd) >>, << <<"7">> >> }

InitNested == InitLines("NestedFlagGroup", NestedVocab, MaxHelpPhrases)

\* NestedFlagGroup has no vector of groups, so no Flag<T, true> is parsed
\* through
NextNested ==
  \/ NextNames
  \/ PrintHelpStream
  \/ PrintHelpPrinter

SpecNested == InitNested /\ [][NextNested]_vars

\* The calls the declarations ask for, without the writeBlock calls: for a
\* flag of the class declared with the names and the description, one
\* enterFlag, the calls of the flags declared in it in declaration order
\* (of a vector: of its element, which has no name), one leaveFlag.  desc is
\* the description of the flag an enterFlag is for.
RECURSIVE Visits(_, _, _, _)
RECURSIVE VisitsOfFields(_, _)
Visits(tid, long, short, desc) ==
  LET c     == ClassOf(tid)
      enter == [call |-> "enterFlag", desc |-> desc,
                props |-> FlagProperties(long, short, << >>,
                                         c.kind = "vector" /\ c.greedy,
                                         c.kind = "vector" /\ c.reentrant)]
      leave == [call |-> "leaveFlag", desc |-> "", props |-> NoProps]
  IN  CASE c.kind \in {"prim", "switch"} -> <<enter, leave>>
        [] c.kind = "wrap"   -> Visits(c.elem, long, short, desc)
        [] c.kind = "vector" -> <<enter>> \o Visits(c.elem, << >>, NUL, "") \o <<leave>>
        [] c.kind = "group"  -> <<enter>> \o VisitsOfFields(c.fields, 1) \o <<leave>>

VisitsOfFields(fields, i) ==
  IF i > Len(fields) THEN << >>
  ELSE Visits(fields[i].type, fields[i].long, fields[i].short, fields[i].description)
         \o VisitsOfFields(fields, i + 1)

\* calls from the i-th on are the visits from the j-th on, with any number
\* of writeBlock calls after an enterFlag, each carrying the description
\* (cur) of the flag entered
RECURSIVE WellNested(_, _, _, _, _)
WellNested(calls, i, visits, j, cur) ==
  IF i > Len(calls) THEN j > Len(visits)
  ELSE IF calls[i].call = "writeBlock"
    THEN /\ cur # ""
         /\ calls[i].block = Text(cur)
         /\ WellNested(calls, i + 1, visits, j, cur)
  ELSE /\ j <= Len(visits)
       /\ calls[i].call = visits[j].call
       /\ calls[i].props = visits[j].props
       /\ WellNested(calls, i + 1, visits, j + 1, visits[j].desc)

CountOf(calls, call) == Cardinality({k \in 1..Len(calls) : calls[k].call = call})

(***************************************************************************)
(* C30.  Help rendering issues a well-nested call sequence: each flag of   *)
(* the tree gets one enterFlag, then zero or more writeBlock calls with    *)
(* its description, then the calls of its children in declaration order,   *)
(* then one leaveFlag, and there are as many leaveFlag as enterFlag calls. *)
(***************************************************************************)
C30_HelpCallsWellNested ==
  \A h \in 1..Len(helps) :
    /\ WellNested(helps[h].calls, 1,
                  Visits(helps[h].tree.type, << >>, NUL, ""), 1, "")
    /\ CountOf(helps[h].calls, "enterFlag") = CountOf(helps[h].calls, "leaveFlag")

(***************************************************************************)
(* C31.  The tokenizer never reads argv at an index >= argc: when          *)
(* SingletonFlag::parseArgsR calls nextRawArgument (the token carries no   *)
(* value and hasMoreArguments holds) a further argument exists,            *)
(* position + 1 < argc; tell() never exceeds argc; and a value-taking flag *)
(* that is the final argument, with no attached value, returns false       *)
(* without a read and without moving the reader.                           *)
(***************************************************************************)
C31_NeverReadsPastArgv ==
  /\ []((Running(Machine, "singleton", "entry") /\ ~hasValue(rd)
           /\ hasMoreArguments(rd)) => rd.position + 1 < argc)
  /\ [](tell(rd) <= argc)
  /\ [][(Running(Machine, "singleton", "entry") /\ ~hasValue(rd)
           /\ rd.position + 1 >= argc) =>
          (pc' = "running" /\ ret'.set /\ ~ret'.ok /\ rd' = rd)]_vars

(***************************************************************************)
(* C32.  When the final raw argument has been consumed as a value of an    *)
(* unconstrained vector, the vector makes no further attempt at the end of *)
(* the stream and the parse succeeds with that value appended, also for a  *)
(* vector that has only a short name: after switches, -b 1 ends the        *)
(* command line of ShortFlagGroup with success and 1 the last value of b.  *)
(***************************************************************************)
C32_NoAttemptAtEndOfStream ==
  /\ [][(Running(Machine, "vector", "call") /\ ret.set /\ ret.ok /\ atEnd(rd)) =>
          Len(stack') < Len(stack)]_vars
  /\ []((/\ pc = "done"
         /\ Len(argv) >= 3
         /\ argv[Len(argv)] = <<"1">>
         /\ argv[Len(argv) - 1] = Short(<<"b">>)
         /\ \A i \in 2..(Len(argv) - 2) : argv[i] \in {Short(<<"p">>), Long(<<"x">>)}
         /\ \A i, j \in 2..(Len(argv) - 2) : argv[i] = argv[j] => i = j) =>
          /\ result
          /\ MemberChar(flags, "b").items # << >>
          /\ MemberChar(flags, "b").items[Len(MemberChar(flags, "b").items)] = 1)

(***************************************************************************)
(* Floating-point flags.  One flag of FloatFlagGroup is given one value,   *)
(* attached with = or as the next argument.                                *)
(***************************************************************************)
\* decimal numerals with the numbers they denote
FloatNumerals ==
  { [text |-> <<"0">>, num |-> [neg |-> FALSE, mant |-> 0, exp |-> 0]],
    [text |-> <<"0",".","0">>, num |-> [neg |-> FALSE, mant |-> 0, exp |-> 0]],
    [text |-> <<"-","1",".","5">>, num |-> [neg |-> TRUE, mant |-> 15, exp |-> -1]],
    [text |-> <<"1",".","5">>, num |-> [neg |-> FALSE, mant |-> 15, exp |-> -1]],
    [text |-> <<"1","0",".","5">>, num |-> [neg |-> FALSE, mant |-> 105, exp |-> -1]],
    [text |-> <<".","5">>, num |-> [neg |-> FALSE, mant |-> 5, exp |-> -1]],
    [text |-> <<"2",".","7","5">>, num |-> [neg |-> FALSE, mant |-> 275, exp |-> -2]],
    [text |-> <<"4",".","1","2","5">>, num |-> [neg |-> FALSE, mant |-> 4125, exp |-> -3]],
    [text |-> <<"-","2">>, num |-> [neg |-> TRUE, mant |-> 2, exp |-> 0]],
    [text |-> <<"+","7">>, num |-> [neg |-> FALSE, mant |-> 7, exp |-> 0]],
    [text |-> <<"5",".">>, num |-> [neg |-> FALSE, mant |-> 5, exp |-> 0]],
    [text |-> <<"1","E","2">>, num |-> [neg |-> FALSE, mant |-> 1, exp |-> 2]],
    [text |-> <<"1","e","3","8">>, num |-> [neg |-> FALSE, mant |-> 1, exp |-> 38]],
    [text |-> <<"4","e","3","8">>, num |-> [neg |-> FALSE, mant |-> 4, exp |-> 38]],
    [text |-> <<"-","3","e","3","8">>, num |-> [neg |-> TRUE, mant |-> 3, exp |-> 38]],
    [text |-> <<"1","e","-","4","0">>, num |-> [neg |-> FALSE, mant |-> 1, exp |-> -40]],
    [text |-> <<"2","e","-","3","8">>, num |-> [neg |-> FALSE, mant |-> 2, exp |-> -38]],
    [text |-> <<"1","e","3","0","8">>, num |-> [neg |-> FALSE, mant |-> 1, exp |-> 308]],
    [text |-> <<"2","e","3","0","8">>, num |-> [neg |-> FALSE, mant |-> 2, exp |-> 308]],
    [text |-> <<"-","1","e","3","0","8">>, num |-> [neg |-> TRUE, mant |-> 1, exp |-> 308]],
    [text |-> <<"3","e","-","3","0","8">>, num |-> [neg |-> FALSE, mant |-> 3, exp |-> -308]],
    [text |-> <<"1","e","-","3","1","0">>, num |-> [neg |-> FALSE, mant |-> 1, exp |-> -310]],
    [text |-> <<"1","e","4","0","0","0">>, num |-> [neg |-> FALSE, mant |-> 1, exp |-> 4000]],
    [text |-> <<"1","e","-","4","0","0","0">>, num |-> [neg |-> FALSE, mant |-> 1, exp |-> -4000]],
    [text |-> <<"2","e","4","9","3","2">>, num |-> [neg |-> FALSE, mant |-> 2, exp |-> 4932]] }

\* strings that are not numerals, or are a numeral followed or preceded by
\* something else
FloatOthers ==
  { <<>>, <<"a","b","c">>, <<".">>, <<"-">>, <<"e","5">>, <<"1",".","5","a","b","c">>, <<" ","2">>, <<"1","e">>, <<"-","-","1">>, <<"1",".","5",".","5">> }

FloatTexts == { n.text : n \in FloatNumerals } \cup FloatOthers

FloatNames == { <<"x">>, <<"f">>, <<"l">> }

InitFloat ==
  /\ argv \in { <<Prog, LongEq(name, v)>> : name \in FloatNames, v \in FloatTexts }
                \cup { <<Prog, Long(name), v>> : name \in FloatNames, v \in FloatTexts }
                \cup { <<Prog, Short(<<"x">>), v>> : v \in FloatTexts }
  /\ argc = Len(argv)
  /\ flags = Construct("FloatFlagGroup", << >>, NUL)
  /\ rd = NewArgReader(0)
  /\ stack = << >>
  /\ ret = NoRet
  /\ pc = "start"
  /\ result = FALSE
  /\ err = << >>
  /\ printer = BasicHelpPrinter
  /\ helps = << >>

NextFloat ==
  \/ ParseArgs
  \/ ParseArgsReturn
  \/ Singleton
  \/ GroupEnter
  \/ GroupLoop
  \/ GroupParsed

SpecFloat == InitFloat /\ [][NextFloat]_vars

\* the flag and the string the command line gives it
FloatName == IF argv[2][2] = "-" THEN <<argv[2][3]>> ELSE <<argv[2][2]>>

FloatText ==
  IF Len(argv) = 3 THEN argv[3] ELSE SubSeq(argv[2], 5, Len(argv[2]))

\* std::numeric_limits<T>::denorm_min(), cut to nine digits: the smallest
\* positive value of the type
DenormMin(ptype) ==
  CASE ptype = "float"  -> [neg |-> FALSE, mant |-> 140129846, exp |-> -53]
    [] ptype = "double" -> [neg |-> FALSE, mant |-> 494065645, exp |-> -332]
    [] OTHER            -> [neg |-> FALSE, mant |-> 364519953, exp |-> -4959]

\* the number is zero, or lies between the smallest and the largest finite
\* magnitude of the type, with either sign
Representable(ptype, num) ==
  \/ num.mant = 0
  \/ MagLeq(DenormMin(ptype), num) /\ MagLeq(num, FloatMax(ptype))

(***************************************************************************)
(* C33: a float, double or long double flag accepts every well-formed      *)
(* value from the most negative to the largest finite value of its type:   *)
(* the parse succeeds, the flag is present and holds the number; zero and  *)
(* negative values such as 0 and -1.5 are among them.                      *)
(***************************************************************************)
C33_AcceptsRepresentable ==
  pc = "done" =>
    \A n \in FloatNumerals :
      LET x == Member(flags, FloatName)
      IN  (n.text = FloatText /\ Representable(x.type, n.num)) =>
            /\ result
            /\ x.present
            /\ x.value.mant = n.num.mant
            /\ x.value.exp = n.num.exp
            /\ (n.num.mant # 0 => x.value.neg = n.num.neg)


\* the groups of the tree that a declaration constructs: the group itself
\* and, through a Flag<G>, the groups declared directly in it
RECURSIVE GroupsOf(_)
GroupsOf(g) ==
  {g} \cup UNION { GroupsOf(g.fields[i].fields[1]) :
                     i \in { k \in 1..Len(g.fields) :
                               ClassOf(g.fields[k].type).kind = "wrap" } }

\* the enterFlag calls made for the children of the flag that printHelp was
\* called on: those received while one enterFlag is open
ChildVisits(calls) ==
  { k \in 1..Len(calls) :
      /\ calls[k].call = "enterFlag"
      /\ CountOf(SubSeq(calls, 1, k - 1), "enterFlag")
           = CountOf(SubSeq(calls, 1, k - 1), "leaveFlag") + 1 }

(***************************************************************************)
(* C34.  After construction each flag declared in a group occurs exactly   *)
(* once in the group's member list and is the target of at most one entry  *)
(* of each name index, also when the flag is a group declared as Flag<G>;  *)
(* so the scans over the members, and help rendering, visit each declared  *)
(* child once.                                                             *)
(***************************************************************************)
C34_DeclaredOnce ==
  /\ \A g \in GroupsOf(flags) :
       \A i \in 1..Len(g.fields) :
         /\ Cardinality({k \in 1..Len(g.members) : g.members[k].f = i}) = 1
         /\ Cardinality({e \in g.byLong : e.ref.f = i}) <= 1
         /\ Cardinality({e \in g.byShort : e.ref.f = i}) <= 1
  /\ \A h \in 1..Len(helps) :
       Cardinality(ChildVisits(helps[h].calls)) = Len(helps[h].tree.fields)

=============================================================================
